---- MODULE Spec2Model ----
(* A model of the xmltokenizer streaming lexer: the growable read buffer,  *)
(* the raw-token boundary scanner (RawToken, parseCharData) and the token  *)
(* field extractor (Token and its consume steps).  Bytes are one-character *)
(* strings, slices are sequences, Go's 0-based indices are kept (At and     *)
(* Slice).  An index or slice bound out of range is a Go run-time panic;    *)
(* the operators carry it as a "panic" flag.                               *)
EXTENDS Integers, Sequences, FiniteSets, TLC

(***************************************************************************)
(* Bounds of the model.                                                    *)
(***************************************************************************)
\* Longest document, counted in pieces of the piece library.
MaxPieces == 3
\* Read buffer sizes given to WithReadBufferSize range over 1..MaxChunk.
MaxChunk == 2
\* defaultReadBufferSize (4 << 10 in the source), scaled down.
defaultReadBufferSize == 3
\* autoGrowBufferMaxLimitSize (1000 << 10 in the source), scaled down; as in
\* the source, far above the length of any document tokenized here.
autoGrowBufferMaxLimitSize == 100
\* defaultAttrsBufferSize (16 in the source), scaled down.
defaultAttrsBufferSize == 2

(***************************************************************************)
(* Bytes and slices.                                                       *)
(***************************************************************************)
NUL == "0"    \* the zero byte of a freshly made buffer
SP  == " "
TAB == "\t"
CR  == "\r"
LF  == "\n"

Min(a, b) == IF a <= b THEN a ELSE b
Max(a, b) == IF a >= b THEN a ELSE b

\* b[i], 0-based.
At(b, i) == b[i + 1]
\* b[lo:hi], 0-based, hi exclusive.
Slice(b, lo, hi) == SubSeq(b, lo + 1, hi)
\* n zero bytes: make([]byte, n).
Zeros(n) == [i \in 1..n |-> NUL]

CDATAPrefix == <<"<", "!", "[", "C", "D", "A", "T", "A", "[">>
CDATASuffix == <<"]", "]", ">">>

(***************************************************************************)
(* Errors.  kind is what errors.Is sees through the wrapping; pos is the   *)
(* byte position Token wraps a non-EOF error with (-1: not wrapped).       *)
(***************************************************************************)
Err(kind, pos) == [kind |-> kind, pos |-> pos]
nil == Err("nil", -1)
EOF == Err("EOF", -1)
\* The end of the source reported as it is, without the escalation.
notEscalated == Err("EOF", -1)
ErrUnexpectedEOF == Err("ErrUnexpectedEOF", -1)
errAutoGrowBufferExceedMaxLimit == Err("errAutoGrowBufferExceedMaxLimit", -1)
errRead == Err("errRead", -1)   \* a failure reported by the byte source

(***************************************************************************)
(* trim, trimPrefix, trimSuffix.                                           *)
(***************************************************************************)
RECURSIVE trimPrefixLoop(_, _, _)
trimPrefixLoop(b, i, start) ==
    IF i >= Len(b) THEN Slice(b, start, Len(b))
    ELSE IF At(b, i) = CR
         THEN IF i + 1 < Len(b) /\ At(b, i + 1) = LF
              THEN trimPrefixLoop(b, i + 2, start + 2)
              ELSE trimPrefixLoop(b, i + 1, start)
    ELSE IF At(b, i) \in {LF, SP, TAB}
         THEN trimPrefixLoop(b, i + 1, start + 1)
    ELSE Slice(b, start, Len(b))

trimPrefix(b) == trimPrefixLoop(b, 0, 0)

RECURSIVE trimSuffixLoop(_, _, _)
trimSuffixLoop(b, i, end) ==
    IF i < 0 THEN Slice(b, 0, end)
    ELSE IF At(b, i) = LF
         THEN trimSuffixLoop(b, i - 1,
                  IF i - 1 > 0 /\ At(b, i - 1) = CR THEN end - 2 ELSE end - 1)
    ELSE IF At(b, i) \in {SP, TAB}
         THEN trimSuffixLoop(b, i - 1, end - 1)
    ELSE Slice(b, 0, end)

trimSuffix(b) == trimSuffixLoop(b, Len(b) - 1, Len(b))

trim(b) == trimSuffix(trimPrefix(b))

(***************************************************************************)
(* Token, Attr, Name.                                                      *)
(***************************************************************************)
ZeroName == [Prefix |-> <<>>, Local |-> <<>>, Full |-> <<>>]
ZeroToken == [Name |-> ZeroName, Attrs |-> <<>>, Data |-> <<>>,
              SelfClosing |-> FALSE, IsEndElement |-> FALSE]

\* clearToken that leaves Attrs and SelfClosing as they are.
clearTokenKeepsAttrs(token) ==
    [token EXCEPT !.Name.Prefix = <<>>, !.Name.Local = <<>>, !.Name.Full = <<>>,
                  !.Data = <<>>, !.IsEndElement = FALSE]
\* clearToken: every field of the scratch token is reset (Attrs[:0]).
clearToken(token) ==
    [token EXCEPT !.Name.Prefix = <<>>, !.Name.Local = <<>>, !.Name.Full = <<>>,
                  !.Attrs = <<>>, !.Data = <<>>,
                  !.SelfClosing = FALSE, !.IsEndElement = FALSE]

\* The result of a consume step: the token so far, the rest of the span,
\* and whether the step panicked.
Step(token, rest, panic) == [token |-> token, rest |-> rest, panic |-> panic]

\* consumeNonTagIdentifier that leaves SelfClosing as it is.
consumeWithoutFlag(token, b) ==
    IF Len(b) < 2 \/ (Slice(b, 0, 2) # <<"<", "?">> /\ Slice(b, 0, 2) # <<"<", "!">>)
    THEN Step(token, b, FALSE)
    ELSE Step([token EXCEPT !.Data = b], <<>>, FALSE)

\* consumeNonTagIdentifier that only knows "<?".
consumeProcInstOnly(token, b) ==
    IF Len(b) < 2 \/ Slice(b, 0, 2) # <<"<", "?">>
    THEN Step(token, b, FALSE)
    ELSE Step([token EXCEPT !.Data = b, !.SelfClosing = TRUE], <<>>, FALSE)

consumeNonTagIdentifier(token, b) ==
    IF Len(b) < 2 \/ (Slice(b, 0, 2) # <<"<", "?">> /\ Slice(b, 0, 2) # <<"<", "!">>)
    THEN Step(token, b, FALSE)
    ELSE Step([token EXCEPT !.Data = b, !.SelfClosing = TRUE], <<>>, FALSE)

RECURSIVE consumeTagNameLoop(_, _, _, _, _)
consumeTagNameLoop(token, b, i, pos, fullpos) ==
    IF i >= Len(b) THEN Step(token, b, FALSE)
    ELSE IF At(b, i) = "<"
         THEN IF i + 1 >= Len(b) THEN Step(token, <<>>, TRUE)
              ELSE IF At(b, i + 1) = "/"
                   THEN consumeTagNameLoop([token EXCEPT !.IsEndElement = TRUE],
                                           b, i + 2, i + 2, i + 2)
                   ELSE consumeTagNameLoop(token, b, i + 1, i + 1, i + 1)
    ELSE IF At(b, i) = ":"
         THEN IF pos > i THEN Step(token, <<>>, TRUE)
              ELSE consumeTagNameLoop(
                       [token EXCEPT !.Name.Prefix = trim(Slice(b, pos, i))],
                       b, i + 1, i + 1, fullpos)
    ELSE IF At(b, i) \in {">", SP, TAB, CR, LF}
         THEN IF At(b, i) = ">" /\ i = 0 THEN Step(token, <<>>, TRUE)
              ELSE LET e == IF At(b, i) = ">" /\ At(b, i - 1) = "/" THEN i - 1 ELSE i
                   IN IF pos > e \/ fullpos > e THEN Step(token, <<>>, TRUE)
                      ELSE Step([token EXCEPT
                                    !.Name.Local = trim(Slice(b, pos, e)),
                                    !.Name.Full = trim(Slice(b, fullpos, e))],
                                Slice(b, e, Len(b)), FALSE)
    ELSE consumeTagNameLoop(token, b, i + 1, pos, fullpos)

\* consumeTagName that takes the '/' of an end tag for the '/' of "/>" too.
consumeTagNameSlash(token, b) ==
    Step([consumeTagNameLoop(token, b, 0, 0, 0).token EXCEPT
              !.SelfClosing = consumeTagNameLoop(token, b, 0, 0, 0).token.IsEndElement],
         consumeTagNameLoop(token, b, 0, 0, 0).rest,
         consumeTagNameLoop(token, b, 0, 0, 0).panic)

consumeTagName(token, b) == consumeTagNameLoop(token, b, 0, 0, 0)

\* A value scan that is not quote-aware: the value ends where it starts.
valueEndsAtOnce(b, i) == i

\* The inner loop of the '"' case: the index of the closing quote, -1 when
\* the scan reaches the last byte first (return nil), -2 when it indexes
\* past the end of b.
RECURSIVE closingQuote(_, _)
closingQuote(b, i) ==
    IF i + 1 = Len(b) THEN -1
    ELSE IF i >= Len(b) THEN -2
    ELSE IF At(b, i) = "\"" THEN i
    ELSE closingQuote(b, i + 1)

RECURSIVE consumeAttrsLoop(_, _, _, _, _, _)
consumeAttrsLoop(token, b, i, pos, fullpos, nm) ==
    IF i >= Len(b) THEN Step(token, b, FALSE)
    ELSE IF At(b, i) = ":"
         THEN IF pos > i THEN Step(token, <<>>, TRUE)
              ELSE consumeAttrsLoop(token, b, i + 1, i + 1, fullpos,
                       [nm EXCEPT !.Prefix = trim(Slice(b, pos, i))])
    ELSE IF At(b, i) = "="
         THEN IF pos > i \/ fullpos > i THEN Step(token, <<>>, TRUE)
              ELSE consumeAttrsLoop(token, b, i + 1, i + 1, fullpos,
                       [nm EXCEPT !.Local = trim(Slice(b, pos, i)),
                                  !.Full = trim(Slice(b, fullpos, i))])
    ELSE IF At(b, i) = "\""
         THEN LET q == closingQuote(b, i + 1)
              IN IF q = -1 THEN Step(token, <<>>, FALSE)
                 ELSE IF q = -2 THEN Step(token, <<>>, TRUE)
                 ELSE IF Len(nm.Full) = 0
                      THEN consumeAttrsLoop(token, b, q + 1, pos, fullpos, nm)
                 ELSE IF pos + 1 > q THEN Step(token, <<>>, TRUE)
                 ELSE consumeAttrsLoop(
                          [token EXCEPT !.Attrs = Append(@,
                              [Name |-> nm, Value |-> trim(Slice(b, pos + 1, q))])],
                          b, q + 1, q + 1, q + 1, ZeroName)
    ELSE IF At(b, i) = "/"
         THEN consumeAttrsLoop([token EXCEPT !.SelfClosing = TRUE],
                               b, i + 1, pos, fullpos, nm)
    ELSE IF At(b, i) = ">"
         THEN Step(token, Slice(b, i + 1, Len(b)), FALSE)
    ELSE consumeAttrsLoop(token, b, i + 1, pos, fullpos, nm)

consumeAttrs(token, b) == consumeAttrsLoop(token, b, 0, 0, 0, ZeroName)

consumeCharData(token, b) ==
    LET b1 == trimPrefix(b)
        b2 == IF Len(b1) >= Len(CDATAPrefix)
                  /\ Slice(b1, 0, Len(CDATAPrefix)) = CDATAPrefix
              THEN Slice(b1, Len(CDATAPrefix), Len(b1))
              ELSE b1
        end == Len(b2) - Len(CDATASuffix)
        b3 == IF end >= 0 /\ Slice(b2, end, Len(b2)) = CDATASuffix
              THEN Slice(b2, 0, end)
              ELSE b2
    IN Step([token EXCEPT !.Data = trim(b3)], <<>>, FALSE)

\* The extraction part of Token, lines 131-148; token: the scratch token
\* as the call before left it.
ExtractFrom(token, b) ==
    LET s0 == consumeNonTagIdentifier(clearToken(token), b)
    IN IF Len(s0.rest) = 0 THEN s0
       ELSE LET s1 == consumeTagName(s0.token, s0.rest)
            IN IF s1.panic THEN s1
               ELSE LET s2 == consumeAttrs(s1.token, s1.rest)
                    IN IF s2.panic THEN s2
                       ELSE consumeCharData(s2.token, s2.rest)

\* The extraction on the scratch token of a new tokenizer.
Extract(b) == ExtractFrom(ZeroToken, b)

(***************************************************************************)
(* The byte source.  data: the bytes not yet delivered; rmax: the most     *)
(* bytes one Read delivers; fail: the number of bytes after which Read     *)
(* reports a failure (-1: never); calls: the Read calls issued so far.     *)
(***************************************************************************)
Reader(data, rmax, fail) == [data |-> data, rmax |-> rmax, fail |-> fail, calls |-> 0]

\* io.ReadAtLeast(r, p, 1) with len(p) = want: one Read, which delivers at
\* least one byte, or io.EOF, or the source's failure.
ReadAtLeast(r, want) ==
    IF r.fail = 0
    THEN [r |-> [r EXCEPT !.calls = @ + 1], p |-> <<>>, err |-> errRead]
    ELSE IF Len(r.data) = 0
    THEN [r |-> [r EXCEPT !.calls = @ + 1], p |-> <<>>, err |-> EOF]
    ELSE LET k0 == Min(Min(want, r.rmax), Len(r.data))
             k == IF r.fail > 0 THEN Min(k0, r.fail) ELSE k0
         IN [r |-> [r EXCEPT !.calls = @ + 1,
                             !.data = Slice(@, k, Len(@)),
                             !.fail = IF @ > 0 THEN @ - k ELSE @],
             p |-> Slice(r.data, 0, k), err |-> nil]

(***************************************************************************)
(* Tokenizer.  buf is the backing array of t.buf (cap(t.buf) = Len(buf)),  *)
(* len is len(t.buf).  low is a history field, no field of the struct: the *)
(* lowest value that openclose took in the last RawToken call.  got is a   *)
(* history field: the number of bytes that the last Read delivered.  eofAt *)
(* is a history field too:                                                 *)
(* where the scanner stood when the source reported io.EOF ("none" before  *)
(* that; "depth0" and "depth" in the loop of RawToken with openclose = 0   *)
(* and # 0, "chardata" in the outer and "cdata" in the inner loop of       *)
(* parseCharData).                                                         *)
(***************************************************************************)
Options(rbs, maxlimit, attrs) ==
    [readBufferSize |-> rbs, autoGrowBufferMaxLimitSize |-> maxlimit,
     attrsBufferSize |-> attrs]

defaultOptions ==
    Options(defaultReadBufferSize, autoGrowBufferMaxLimitSize, defaultAttrsBufferSize)

\* The options given to New or Reset: a size <= 0 stands for the default
\* (WithReadBufferSize, WithAutoGrowBufferMaxLimitSize, WithAttrBufferSize).
WithReadBufferSize(o, size) ==
    [o EXCEPT !.readBufferSize = IF size <= 0 THEN defaultReadBufferSize ELSE size]
WithAutoGrowBufferMaxLimitSize(o, size) ==
    [o EXCEPT !.autoGrowBufferMaxLimitSize =
                  IF size <= 0 THEN autoGrowBufferMaxLimitSize ELSE size]
\* WithAttrBufferSize that takes any size as it is given.
WithAttrBufferSizeAsGiven(o, size) == [o EXCEPT !.attrsBufferSize = size]
WithAttrBufferSize(o, size) ==
    [o EXCEPT !.attrsBufferSize = IF size <= 0 THEN defaultAttrsBufferSize ELSE size]

\* new(Tokenizer): the zero value.
ZeroTokenizer ==
    [r |-> Reader(<<>>, 1, -1), n |-> 0, options |-> Options(0, 0, 0),
     buf |-> <<>>, len |-> 0, cur |-> 0, err |-> nil, token |-> ZeroToken,
     eofAt |-> "none", low |-> 0, got |-> 0, base |-> 0]

\* The buffer of Reset when it always makes a new one.
ResetBufferAlways(buf, size) == Zeros(size + defaultReadBufferSize)
\* Lines 103-109: the backing array after Reset, buf being the one before.
\* It is kept when its capacity is at least size + defaultReadBufferSize.
ResetBuffer(buf, size) ==
    IF Len(buf) >= size + defaultReadBufferSize THEN buf
    ELSE Zeros(size + defaultReadBufferSize)

\* Reset that leaves the last error in place.
ResetKeepsError(t, r, opts) ==
    LET o1 == WithAttrBufferSize(
                  WithAutoGrowBufferMaxLimitSize(
                      WithReadBufferSize(defaultOptions, opts.readBufferSize),
                      opts.autoGrowBufferMaxLimitSize),
                  opts.attrsBufferSize)
        o2 == IF o1.readBufferSize > o1.autoGrowBufferMaxLimitSize
              THEN [o1 EXCEPT !.autoGrowBufferMaxLimitSize = o1.readBufferSize]
              ELSE o1
        size == o2.readBufferSize
    IN [t EXCEPT !.r = r, !.n = 0, !.cur = 0, !.options = o2,
                 !.buf = IF Len(@) >= size + defaultReadBufferSize
                         THEN @ ELSE Zeros(size + defaultReadBufferSize),
                 !.len = size]

\* Reset(r, opts...): opts is the record of the sizes given.  The capacity
\* of the scratch token's Attrs is storage only and is not modelled.
Reset(t, r, opts) ==
    LET o1 == WithAttrBufferSize(
                  WithAutoGrowBufferMaxLimitSize(
                      WithReadBufferSize(defaultOptions, opts.readBufferSize),
                      opts.autoGrowBufferMaxLimitSize),
                  opts.attrsBufferSize)
        o2 == IF o1.readBufferSize > o1.autoGrowBufferMaxLimitSize
              THEN [o1 EXCEPT !.autoGrowBufferMaxLimitSize = o1.readBufferSize]
              ELSE o1
        size == o2.readBufferSize
    IN [t EXCEPT !.r = r, !.err = nil, !.n = 0, !.cur = 0, !.options = o2,
                 !.eofAt = "none", !.base = 0,
                 !.buf = ResetBuffer(@, size),
                 !.len = size]

New(r, opts) == Reset(ZeroTokenizer, r, opts)

\* memmoveRemainingBytes that reslices the buffer without copying.
memmoveRemainingBytesNoCopy(t, pivot) ==
    IF pivot = 0 THEN [t |-> t, cur |-> t.cur, last |-> t.len]
    ELSE [t |-> [t EXCEPT !.len = t.len - pivot, !.cur = 0, !.base = @ + pivot],
          cur |-> 0, last |-> t.len - pivot]
\* memmoveRemainingBytes(pivot): (t, cur, last).  base counts the bytes that
\* the compactions have dropped from the front of the buffer.
memmoveRemainingBytes(t, pivot) ==
    IF pivot = 0 THEN [t |-> t, cur |-> t.cur, last |-> t.len]
    ELSE LET n == t.len - pivot
         IN [t |-> [t EXCEPT !.buf = [i \in 1..Len(@) |->
                                         IF i <= n THEN @[i + pivot] ELSE @[i]],
                             !.len = n, !.cur = 0, !.base = @ + pivot],
             cur |-> 0, last |-> n]

\* copy(dst[start:], p): the bytes of p written at offset start.
Write(buf, start, p) ==
    [i \in 1..Len(buf) |->
        IF i > start /\ i <= start + Len(p) THEN p[i - start] ELSE buf[i]]

\* manageBuffer(): (t, err).
manageBuffer(t) ==
    LET growSize == t.len + t.options.readBufferSize
    IN IF growSize > Len(t.buf) /\ growSize > t.options.autoGrowBufferMaxLimitSize
       THEN [t |-> t, err |-> errAutoGrowBufferExceedMaxLimit]
       ELSE LET grown == IF growSize <= Len(t.buf) THEN t.buf
                         ELSE Slice(t.buf, 0, t.len) \o Zeros(growSize - t.len)
                start == t.len
                end == IF growSize <= Len(t.buf) THEN growSize ELSE Len(grown)
                rd == ReadAtLeast(t.r, end - start)
            IN [t |-> [t EXCEPT !.r = rd.r,
                                !.buf = Write(grown, start, rd.p),
                                !.len = start + Len(rd.p),
                                !.n = @ + Len(rd.p),
                                !.got = Len(rd.p)],
                err |-> rd.err]

(***************************************************************************)
(* The raw token scanner.                                                  *)
(***************************************************************************)
\* What parseCharData returns, with the tokenizer it leaves behind.
Scan(t, pivot, pos) == [t |-> t, pivot |-> pivot, pos |-> pos]

\* The refill at the end of the buffer, the same in all three loops (lines
\* 164-165, 208-210, 224-227): memmoveRemainingBytes, then manageBuffer.
\* t, err: what manageBuffer leaves and returns; cur, last: what
\* memmoveRemainingBytes returned; moved: the bytes the buffer lost.
Refill(t, pivot) ==
    LET m == memmoveRemainingBytes(t, pivot)
    IN [g |-> manageBuffer(m.t), cur |-> m.cur, last |-> m.last,
        moved |-> t.len - m.t.len]

\* The inner loop of parseCharData (lines 222-245): j scans a possible
\* <![CDATA[ ... ]]>, k counts the bytes of the prefix matched so far.
RECURSIVE parseCDATA(_, _, _, _, _)
RECURSIVE parseCDATAStep(_, _, _, _, _)
\* Lines 224-232, after the refill f.
parseCDATARefilled(f, pos, k) ==
    IF f.g.err # nil
    THEN Scan([f.g.t EXCEPT !.err = IF f.g.err.kind = "EOF"
                                     THEN ErrUnexpectedEOF ELSE f.g.err,
                            !.eofAt = IF f.g.err.kind = "EOF" THEN "cdata" ELSE @],
              f.cur, pos - f.moved)
    ELSE parseCDATAStep([f.g.t EXCEPT !.err = nil], f.cur, pos - f.moved, f.last, k)

parseCDATA(t, pivot, pos, j, k) ==
    IF j >= t.len
    THEN parseCDATARefilled(Refill(t, pivot), pos, k)
    ELSE parseCDATAStep(t, pivot, pos, j, k)

\* The body of the inner loop once t.buf[j] is in the buffer (lines 234-244).
parseCDATAStep(t, pivot, pos, j, k) ==
    IF k < Len(CDATAPrefix)
    THEN IF At(t.buf, j) # At(CDATAPrefix, k)
         THEN Scan(t, pivot, pos)
         ELSE parseCDATA(t, pivot, pos, j + 1, k + 1)
    ELSE IF At(t.buf, j) = ">" /\ Slice(t.buf, j - 2, j + 1) = CDATASuffix
         THEN Scan(t, pivot, j)
         ELSE parseCDATA(t, pivot, pos, j + 1, k)

\* The outer loop of parseCharData (lines 206-247).
RECURSIVE parseCharDataLoop(_, _, _, _)
RECURSIVE parseCharDataStep(_, _, _, _)
\* Lines 208-212, after the refill f.
parseCharDataRefilled(f) ==
    IF f.g.err # nil
    THEN Scan([f.g.t EXCEPT !.err = f.g.err,
                            !.eofAt = IF f.g.err.kind = "EOF" THEN "chardata" ELSE @],
              f.cur, f.last - 1)
    ELSE parseCharDataStep([f.g.t EXCEPT !.err = nil], f.cur, f.last - 1, f.last)

parseCharDataLoop(t, pivot, pos, i) ==
    IF i >= t.len
    THEN parseCharDataRefilled(Refill(t, pivot))
    ELSE parseCharDataStep(t, pivot, pos, i)

parseCharDataStep(t, pivot, pos, i) ==
    IF At(t.buf, i) # "<"
    THEN parseCharDataLoop(t, pivot, pos, i + 1)
    ELSE parseCDATA(t, pivot, i - 1, i + 1, 1)

parseCharData(t, pivot, pos) == parseCharDataLoop(t, pivot, pos, pos + 1)

\* What RawToken returns, with the tokenizer it leaves behind; lo: where
\* the span b starts in t.buf.
Raw(t, lo, b, err) == [t |-> t, lo |-> lo, b |-> b, err |-> err]

\* trim(t.buf[pivot : end : cap(t.buf)]) returned with a nil error (lines
\* 186-188 and 194-196).
RawTrimmed(t, pivot, end) ==
    Raw(t, end - Len(trimPrefix(Slice(t.buf, pivot, end))),
        trim(Slice(t.buf, pivot, end)), nil)

\* Lines 166-170: the error RawToken stores and returns with the span.
RawTokenFailed(t, pivot, pos, openclose, err) ==
    Raw([t EXCEPT !.err = err,
                  !.eofAt = IF err.kind \notin {"EOF", "ErrUnexpectedEOF"} THEN @
                            ELSE IF openclose = 0 THEN "depth0"
                            ELSE "depth"],
        pivot, Slice(t.buf, pivot, pos), err)

\* Lines 194-196: the span that parseCharData has extended.
RawTokenWithCharData(p) ==
    RawTrimmed([p.t EXCEPT !.cur = p.pos + 1], p.pivot, p.pos + 1)

\* RawToken that looks for character data after a comment, a directive or
\* a processing instruction as it does after a tag.
RawTokenNonTagLookahead(t, pivot, pos) ==
    RawTokenWithCharData(parseCharData(t, pivot, pos))
\* Lines 184-189: the span of a comment, a directive or a processing
\* instruction is returned at its '>'.
RawTokenNonTag(t, pivot, pos) ==
    RawTrimmed([t EXCEPT !.cur = pos + 1], pivot, pos + 1)

\* The loop of RawToken (lines 162-199).
RECURSIVE RawTokenLoop(_, _, _, _)
RECURSIVE RawTokenStep(_, _, _, _)
\* Lines 164-171, after the refill f.
RawTokenRefilled(f, openclose) ==
    IF f.g.err # nil
    THEN RawTokenFailed(f.g.t, f.cur, f.last, openclose,
                        IF openclose # 0 /\ f.g.err.kind = "EOF"
                        THEN ErrUnexpectedEOF ELSE f.g.err)
    ELSE RawTokenStep(f.g.t, f.cur, f.last, openclose)

RawTokenLoop(t, pivot, pos, openclose) ==
    IF pos >= t.len
    THEN RawTokenRefilled(Refill(t, pivot), openclose)
    ELSE RawTokenStep(t, pivot, pos, openclose)

\* The switch without the count of nested '<': the first '>' ends the span.
RawTokenStepFlat(t, pivot, pos, openclose) ==
    IF At(t.buf, pos) = "<"
    THEN RawTokenLoop(t, IF openclose = 0 THEN pos ELSE pivot, pos + 1, 1)
    ELSE IF At(t.buf, pos) = ">"
    THEN IF openclose - 1 # 0
         THEN RawTokenLoop(t, pivot, pos + 1, openclose - 1)
         ELSE IF At(t.buf, pivot + 1) \in {"?", "!"}
         THEN RawTrimmed([t EXCEPT !.cur = pos + 1], pivot, pos + 1)
         ELSE RawTokenWithCharData(parseCharData(t, pivot, pos))
    ELSE RawTokenLoop(t, pivot, pos + 1, openclose)

\* The switch on t.buf[pos] (lines 173-198).
RawTokenStep(t, pivot, pos, openclose) ==
    IF At(t.buf, pos) = "<"
    THEN RawTokenLoop(t, IF openclose = 0 THEN pos ELSE pivot, pos + 1, openclose + 1)
    ELSE IF At(t.buf, pos) = ">"
    THEN IF openclose - 1 # 0
         THEN RawTokenLoop([t EXCEPT !.low = Min(@, openclose - 1)],
                           pivot, pos + 1, openclose - 1)
         ELSE IF At(t.buf, pivot + 1) \in {"?", "!"}
         THEN RawTokenNonTag(t, pivot, pos)
         ELSE RawTokenWithCharData(parseCharData(t, pivot, pos))
    ELSE RawTokenLoop(t, pivot, pos + 1, openclose)

\* RawToken without the check of t.err on entry.
RawTokenUnchecked(t) == RawTokenLoop(t, t.cur, t.cur, 0)

RawToken(t) ==
    IF t.err # nil THEN Raw(t, 0, <<>>, t.err)
    ELSE RawTokenLoop([t EXCEPT !.low = 0], t.cur, t.cur, 0)

(***************************************************************************)
(* Token.                                                                  *)
(***************************************************************************)
\* What Token returns, with the tokenizer it leaves behind; panic: the call
\* did not return but panicked on an index out of range.
Tok(t, token, err, panic) == [t |-> t, token |-> token, err |-> err, panic |-> panic]

\* Lines 122-124: an error other than io.EOF is wrapped with the byte position.
wrapped(err, n) ==
    IF err # nil /\ err.kind # "EOF" THEN Err(err.kind, n) ELSE err

\* Lines 131-148: the token extracted from the span, x, is returned with a
\* nil error.
TokenExtracted(t, x) ==
    Tok([t EXCEPT !.token = x.token],
        IF x.panic THEN ZeroToken ELSE x.token, nil, x.panic)

\* Lines 121-148: what Token makes of the span and the error of RawToken.
TokenOfRaw(raw, err) ==
    IF err # nil /\ (Len(raw.b) = 0 \/ err.kind = "ErrUnexpectedEOF")
    THEN Tok(raw.t, ZeroToken, err, FALSE)
    ELSE TokenExtracted(IF err # nil THEN [raw.t EXCEPT !.err = err] ELSE raw.t,
                        ExtractFrom(raw.t.token, raw.b))

TokenOf(raw) == TokenOfRaw(raw, wrapped(raw.err, raw.t.n))

\* Token that returns the scratch token along with a prior error.
TokenWithError(t) ==
    IF t.err # nil THEN Tok(t, t.token, t.err, FALSE)
    ELSE TokenOf(RawToken(t))

Token(t) ==
    IF t.err # nil THEN Tok(t, ZeroToken, t.err, FALSE)
    ELSE TokenOf(RawToken(t))

(***************************************************************************)
(* Documents: sequences of pieces.                                         *)
(***************************************************************************)
StartA    == <<"<", "a", ">">>
EndA      == <<"<", "/", "a", ">">>
SelfB     == <<"<", "b", "/", ">">>
TextX     == <<"x">>
Blank     == <<SP>>
Comment   == <<"<", "!", "c", ">">>
ProcInst  == <<"<", "?", "p", "?", ">">>
CDataLt   == CDATAPrefix \o <<"a", "<", "b">> \o CDATASuffix
CDataGt   == CDATAPrefix \o <<"a", ">", "b">> \o CDATASuffix
CDataSp   == CDATAPrefix \o <<SP, "a">> \o CDATASuffix
OpenTag   == <<"<", "a">>
OpenCData == CDATAPrefix \o <<"a">>
StrayGt   == <<">">>
AttrGt    == <<"<", "s", SP, "p", "=", "\"", "a", ">", "b", "\"", ">">>
AttrSl    == <<"<", "s", SP, "p", "=", "\"", "a", "/", "b", "\"", ">">>
AttrLt    == <<"<", "s", SP, "p", "=", "\"", "a", "<", "b", "\"", ">">>

CorePieces == {StartA, EndA, SelfB, TextX, Blank, Comment, ProcInst,
               CDataLt, OpenTag, OpenCData, StrayGt}
CDataPieces == {Blank, CDataLt, CDataGt, CDataSp, EndA, SelfB, TextX, Comment}
AttrPieces == {AttrGt, AttrSl, AttrLt, StartA, EndA, TextX, Comment, CDataLt}

\* The documents of at most n pieces of P.
RECURSIVE DocsOf(_, _)
DocsOf(P, n) ==
    IF n = 0 THEN {<<>>}
    ELSE LET D == DocsOf(P, n - 1)
         IN D \cup {Append(d, p) : d \in {e \in D : Len(e) = n - 1}, p \in P}

\* The bytes of a document.
RECURSIVE Bytes(_)
Bytes(d) == IF d = <<>> THEN <<>> ELSE Head(d) \o Bytes(Tail(d))

(***************************************************************************)
(* The token as Go holds it: its byte slices are views of the buffer.      *)
(* Span(lo, hi) is the slice b[lo:hi] of the raw span b; the operators     *)
(* below follow consumeNonTagIdentifier, consumeTagName, consumeAttrs and  *)
(* consumeCharData and keep where each slice lies instead of its bytes.    *)
(* They are used on spans that Extract takes without a panic.              *)
(***************************************************************************)
Span(lo, hi) == [lo |-> lo, hi |-> hi]
NoSpan == Span(0, 0)
Shift(s, k) == IF s = NoSpan THEN s ELSE Span(s.lo + k, s.hi + k)

\* Where trim(b[lo:hi]) lies in b: trimPrefix returns b[start:], trimSuffix
\* b[:end].
trimAt(b, lo, hi) ==
    Span(hi - Len(trimPrefix(Slice(b, lo, hi))),
         hi - Len(trimPrefix(Slice(b, lo, hi))) + Len(trim(Slice(b, lo, hi))))

ZeroNameAt == [Prefix |-> NoSpan, Local |-> NoSpan, Full |-> NoSpan]
ZeroTokenAt == [Name |-> ZeroNameAt, Attrs |-> <<>>, Data |-> NoSpan,
                SelfClosing |-> FALSE, IsEndElement |-> FALSE]

\* The result of a consume step: the token so far and where the rest of
\* the span starts in b (-1: the rest is nil).
StepAt(token, rest) == [token |-> token, rest |-> rest]

consumeNonTagIdentifierAt(token, b) ==
    IF Len(b) < 2 \/ (Slice(b, 0, 2) # <<"<", "?">> /\ Slice(b, 0, 2) # <<"<", "!">>)
    THEN StepAt(token, 0)
    ELSE StepAt([token EXCEPT !.Data = Span(0, Len(b)), !.SelfClosing = TRUE], -1)

RECURSIVE consumeTagNameAt(_, _, _, _, _)
consumeTagNameAt(token, b, i, pos, fullpos) ==
    IF i >= Len(b) THEN StepAt(token, 0)
    ELSE IF At(b, i) = "<"
         THEN IF At(b, i + 1) = "/"
              THEN consumeTagNameAt([token EXCEPT !.IsEndElement = TRUE],
                                    b, i + 2, i + 2, i + 2)
              ELSE consumeTagNameAt(token, b, i + 1, i + 1, i + 1)
    ELSE IF At(b, i) = ":"
         THEN consumeTagNameAt([token EXCEPT !.Name.Prefix = trimAt(b, pos, i)],
                               b, i + 1, i + 1, fullpos)
    ELSE IF At(b, i) \in {">", SP, TAB, CR, LF}
         THEN LET e == IF At(b, i) = ">" /\ At(b, i - 1) = "/" THEN i - 1 ELSE i
              IN StepAt([token EXCEPT !.Name.Local = trimAt(b, pos, e),
                                      !.Name.Full = trimAt(b, fullpos, e)], e)
    ELSE consumeTagNameAt(token, b, i + 1, pos, fullpos)

\* consumeAttrs on b[base:]: i, pos and fullpos count from base.
RECURSIVE consumeAttrsAt(_, _, _, _, _, _, _)
consumeAttrsAt(token, b, base, i, pos, fullpos, nm) ==
    IF base + i >= Len(b) THEN StepAt(token, base)
    ELSE IF At(b, base + i) = ":"
         THEN consumeAttrsAt(token, b, base, i + 1, i + 1, fullpos,
                  [nm EXCEPT !.Prefix = trimAt(b, base + pos, base + i)])
    ELSE IF At(b, base + i) = "="
         THEN consumeAttrsAt(token, b, base, i + 1, i + 1, fullpos,
                  [nm EXCEPT !.Local = trimAt(b, base + pos, base + i),
                             !.Full = trimAt(b, base + fullpos, base + i)])
    ELSE IF At(b, base + i) = "\""
         THEN LET q == closingQuote(Slice(b, base, Len(b)), i + 1)
              IN IF q = -1 THEN StepAt(token, -1)
                 ELSE IF nm.Full.hi = nm.Full.lo
                      THEN consumeAttrsAt(token, b, base, q + 1, pos, fullpos, nm)
                 ELSE consumeAttrsAt(
                          [token EXCEPT !.Attrs = Append(@,
                              [Name |-> nm,
                               Value |-> trimAt(b, base + pos + 1, base + q)])],
                          b, base, q + 1, q + 1, q + 1, ZeroNameAt)
    ELSE IF At(b, base + i) = "/"
         THEN consumeAttrsAt([token EXCEPT !.SelfClosing = TRUE],
                             b, base, i + 1, pos, fullpos, nm)
    ELSE IF At(b, base + i) = ">"
         THEN StepAt(token, base + i + 1)
    ELSE consumeAttrsAt(token, b, base, i + 1, pos, fullpos, nm)

\* consumeCharData on b[base:] (nil when base is -1).
consumeCharDataAt(token, b, base) ==
    IF base = -1 THEN StepAt(token, -1)
    ELSE LET lo1 == Len(b) - Len(trimPrefix(Slice(b, base, Len(b))))
             lo2 == IF Len(b) - lo1 >= Len(CDATAPrefix)
                       /\ Slice(b, lo1, lo1 + Len(CDATAPrefix)) = CDATAPrefix
                    THEN lo1 + Len(CDATAPrefix)
                    ELSE lo1
             end == Len(b) - Len(CDATASuffix)
             hi == IF end >= lo2 /\ Slice(b, end, Len(b)) = CDATASuffix
                   THEN end
                   ELSE Len(b)
         IN StepAt([token EXCEPT !.Data = trimAt(b, lo2, hi)], -1)

\* The extraction part of Token (lines 131-148), as spans of b.
ExtractAt(b) ==
    LET s0 == consumeNonTagIdentifierAt(ZeroTokenAt, b)
    IN IF s0.rest = -1 THEN s0.token
       ELSE LET s1 == consumeTagNameAt(s0.token, b, 0, 0, 0)
                s2 == consumeAttrsAt(s1.token, b, s1.rest, 0, 0, 0, ZeroNameAt)
            IN consumeCharDataAt(s2.token, b, s2.rest).token

(***************************************************************************)
(* Byte slices as Go holds them.  A slice is nil, or a view of the         *)
(* tokenizer's buffer (arr = "buf": the backing array number gen, from     *)
(* offset off), or storage of its own (arr = "own": mem is its backing     *)
(* array, cap = Len(mem)); len is its length.  The bytes of a backing      *)
(* array that the tokenizer has abandoned are not followed.                *)
(***************************************************************************)
NilSlice == [arr |-> "nil", mem |-> <<>>, gen |-> 0, off |-> 0, len |-> 0]
BufSlice(gen, off, len) == [arr |-> "buf", mem |-> <<>>, gen |-> gen, off |-> off, len |-> len]
OwnSlice(mem, len) == [arr |-> "own", mem |-> mem, gen |-> 0, off |-> 0, len |-> len]

\* The slice of the buffer that the span s of a raw span starting at lo is.
SliceAt(s, lo, gen) ==
    IF s.hi = s.lo THEN NilSlice ELSE BufSlice(gen, lo + s.lo, s.hi - s.lo)
NameAt(nm, lo, gen) ==
    [Prefix |-> SliceAt(nm.Prefix, lo, gen), Local |-> SliceAt(nm.Local, lo, gen),
     Full |-> SliceAt(nm.Full, lo, gen)]
\* The token that Token returns for the raw span raw, with its slices.
TokenAt(raw, gen) ==
    [Name |-> NameAt(ExtractAt(raw.b).Name, raw.lo, gen),
     Attrs |-> [j \in 1..Len(ExtractAt(raw.b).Attrs) |->
                   [Name |-> NameAt(ExtractAt(raw.b).Attrs[j].Name, raw.lo, gen),
                    Value |-> SliceAt(ExtractAt(raw.b).Attrs[j].Value, raw.lo, gen)]],
     Data |-> SliceAt(ExtractAt(raw.b).Data, raw.lo, gen),
     SelfClosing |-> ExtractAt(raw.b).SelfClosing,
     IsEndElement |-> ExtractAt(raw.b).IsEndElement]

\* new(Token).
NewToken ==
    [Name |-> [Prefix |-> NilSlice, Local |-> NilSlice, Full |-> NilSlice],
     Attrs |-> <<>>, Data |-> NilSlice, SelfClosing |-> FALSE, IsEndElement |-> FALSE]

\* The slice s can be read: it is no view of an abandoned backing array.
Readable(s, gen) == s.arr # "buf" \/ s.gen = gen
\* The bytes of the slice s, buf being the tokenizer's backing array.
BytesOf(s, buf) ==
    IF s.arr = "own" THEN Slice(s.mem, 0, s.len)
    ELSE IF s.arr = "buf" THEN Slice(buf, s.off, s.off + s.len)
    ELSE <<>>
NameOf(nm, buf) ==
    [Prefix |-> BytesOf(nm.Prefix, buf), Local |-> BytesOf(nm.Local, buf),
     Full |-> BytesOf(nm.Full, buf)]
\* The token as its holder reads it.
Deref(tok, buf) ==
    [Name |-> NameOf(tok.Name, buf),
     Attrs |-> [j \in 1..Len(tok.Attrs) |->
                   [Name |-> NameOf(tok.Attrs[j].Name, buf),
                    Value |-> BytesOf(tok.Attrs[j].Value, buf)]],
     Data |-> BytesOf(tok.Data, buf),
     SelfClosing |-> tok.SelfClosing, IsEndElement |-> tok.IsEndElement]
\* Every byte slice of the token.
ByteSlices(tok) ==
    {tok.Name.Prefix, tok.Name.Local, tok.Name.Full, tok.Data}
        \cup UNION {{tok.Attrs[j].Name.Prefix, tok.Attrs[j].Name.Local,
                     tok.Attrs[j].Name.Full, tok.Attrs[j].Value} :
                        j \in 1..Len(tok.Attrs)}

\* New backing arrays may be longer than what is appended by 0..MaxSlack.
MaxSlack == 1

\* append(s[:0], p...) for a slice s that is nil or has storage of its own:
\* in place when p fits the capacity, in a new backing array otherwise
\* (slack: the capacity the runtime adds).
AppendTo(s, p, slack) ==
    IF s.arr = "own" /\ Len(p) <= Len(s.mem)
    THEN OwnSlice(Write(s.mem, 0, p), Len(p))
    ELSE IF Len(p) = 0 THEN NilSlice
    ELSE OwnSlice(p \o Zeros(slack), Len(p))

\* Copy that copies the attribute values too.
CopyDeep(dst, src, buf, slack) ==
    [dst EXCEPT
        !.Name.Prefix = AppendTo(@, BytesOf(src.Name.Prefix, buf), slack),
        !.Name.Local = AppendTo(@, BytesOf(src.Name.Local, buf), slack),
        !.Name.Full = AppendTo(@, BytesOf(src.Name.Full, buf), slack),
        !.Attrs = [j \in 1..Len(src.Attrs) |->
                      [src.Attrs[j] EXCEPT
                          !.Value = AppendTo(NilSlice, BytesOf(@, buf), slack)]],
        !.Data = AppendTo(@, BytesOf(src.Data, buf), slack),
        !.SelfClosing = src.SelfClosing]

\* dst.Copy(src), token.go: the names and the data are appended to dst's
\* slices, the attributes are copied as they are (their slices with them).
Copy(dst, src, buf, slack) ==
    [dst EXCEPT
        !.Name.Prefix = AppendTo(@, BytesOf(src.Name.Prefix, buf), slack),
        !.Name.Local = AppendTo(@, BytesOf(src.Name.Local, buf), slack),
        !.Name.Full = AppendTo(@, BytesOf(src.Name.Full, buf), slack),
        !.Attrs = src.Attrs,
        !.Data = AppendTo(@, BytesOf(src.Data, buf), slack),
        !.SelfClosing = src.SelfClosing]

\* The caller's memory before it holds any token.
NoMem ==
    [gen |-> 0, hasSrc |-> FALSE, src |-> NewToken,
     hasHeld |-> FALSE, held |-> NewToken, fresh |-> FALSE, pool |-> {},
     hasSnap |-> FALSE, snap |-> ZeroToken, copied |-> NewToken,
     writes |-> 0, wrote |-> 0]

\* No decoder has run.
NoDec == [done |-> FALSE, err |-> nil, panic |-> FALSE, log |-> <<>>]

(***************************************************************************)
(* The state machine.  t is the tokenizer under study.  u is a second      *)
(* tokenizer on a source that delivers the same document; the pair         *)
(* specifications call both in step, the others leave u alone.             *)
(***************************************************************************)
VARIABLES
    doc,     \* the pieces of the document the current source delivers
    cfg,     \* what New or Reset of t was last given: the sizes, the source's behaviour
    t,       \* the tokenizer
    out,     \* the results of the calls on t since its last New or Reset
    pass,    \* the number of New and Reset calls on t so far
    first,   \* the results of the pass before the last Reset
    ucfg,    \* what New of u was given
    u,       \* the second tokenizer
    uout,    \* the results of the calls on u
    mem,     \* the tokens the caller holds, and the pool
    dec      \* what the decoder called on t returned

vars == <<doc, cfg, t, out, pass, first, ucfg, u, uout, mem, dec>>

\* The result of one call.  calls: the Read calls the source has seen when
\* the call returns.
Res(op, token, b, err, calls, panic) ==
    [op |-> op, token |-> token, b |-> b, err |-> err, calls |-> calls, panic |-> panic]

\* What a caller sees of a result: the token or bytes, and the error's kind.
View(r) == [op |-> r.op, token |-> r.token, b |-> r.b, err |-> r.err.kind, panic |-> r.panic]

Cfg(chunk, limit, rmax, fail) == [chunk |-> chunk, limit |-> limit, rmax |-> rmax, fail |-> fail]
OptsOf(c) == Options(c.chunk, c.limit, 0)
SourceOf(d, c) == Reader(Bytes(d), c.rmax, c.fail)

Last(s) == s[Len(s)]
ErrCount(s) == Cardinality({i \in 1..Len(s) : s[i].err # nil})
Panicked == (out # <<>> /\ Last(out).panic) \/ (uout # <<>> /\ Last(uout).panic)

\* Calls that follow a returned error, per pass.
MaxErrCalls == 3
\* New and Reset calls per behaviour.
MaxPasses == 2
\* A failing source fails after it has delivered 1..MaxFail bytes.
MaxFail == 4
\* The buffer limits given to a tokenizer that is to hit its limit: 1..MaxLimit.
MaxLimit == 6

CanCall == ~Panicked /\ ErrCount(out) < MaxErrCalls

\* Until a call returns an error, one pass uses one of Token and RawToken.
Uses(op) == \A i \in 1..Len(out) : out[i].err = nil => out[i].op = op

TokenRes(r) == Res("Token", r.token, <<>>, r.err, r.t.r.calls, r.panic)
RawTokenRes(r) == Res("RawToken", ZeroToken, r.b, r.err, r.t.r.calls, FALSE)

InitWith(D, C) ==
    /\ doc \in D
    /\ cfg \in C
    /\ t = New(SourceOf(doc, cfg), OptsOf(cfg))
    /\ out = <<>>
    /\ pass = 1
    /\ first = <<>>
    /\ mem = NoMem
    /\ dec = NoDec
    /\ ucfg = cfg
    /\ u = ZeroTokenizer
    /\ uout = <<>>

CallToken ==
    /\ CanCall
    /\ Uses("Token")
    /\ LET r == Token(t)
       IN /\ t' = r.t
          /\ out' = Append(out, TokenRes(r))
    /\ UNCHANGED <<doc, cfg, pass, first, ucfg, u, uout, mem, dec>>

CallRawToken ==
    /\ CanCall
    /\ Uses("RawToken")
    /\ LET r == RawToken(t)
       IN /\ t' = r.t
          /\ out' = Append(out, RawTokenRes(r))
    /\ UNCHANGED <<doc, cfg, pass, first, ucfg, u, uout, mem, dec>>

\* Reset on a source that delivers the same bytes, with the same options.
CallResetSame ==
    /\ ~Panicked
    /\ pass < MaxPasses
    /\ t' = Reset(t, SourceOf(doc, cfg), OptsOf(cfg))
    /\ first' = out
    /\ out' = <<>>
    /\ pass' = pass + 1
    /\ UNCHANGED <<doc, cfg, ucfg, u, uout, mem, dec>>

\* Read buffer sizes 1..MaxChunk, sources that deliver a full buffer or one
\* byte per Read, no failure, the default buffer limit.
CoreCfgs == {Cfg(c, 0, m, -1) : c \in 1..MaxChunk, m \in {1, MaxChunk}} \ {Cfg(1, 0, MaxChunk, -1)}

Init == InitWith(DocsOf(CorePieces, MaxPieces), CoreCfgs)
Next == CallToken \/ CallRawToken
Spec == Init /\ [][Next]_vars

\* The same with Reset, on shorter documents.
InitReset == InitWith(DocsOf(CorePieces, MaxPieces - 1), CoreCfgs)
NextReset == CallToken \/ CallRawToken \/ CallResetSame
SpecReset == InitReset /\ [][NextReset]_vars

\* A start tag and what follows it: blanks, CDATA sections, other pieces.
InitCData == InitWith({<<StartA>> \o d : d \in DocsOf(CDataPieces, MaxPieces)}, CoreCfgs)
SpecCData == InitCData /\ [][Next]_vars

\* Tags with quoted attribute values and what follows them.
InitAttr == InitWith(DocsOf(AttrPieces, MaxPieces), CoreCfgs)
SpecAttr == InitAttr /\ [][Next]_vars

\* Well-formed documents: a root element <a> ... </a> around self-closing
\* tags, text, blanks, comments and processing instructions.
BodyPieces == {SelfB, TextX, Blank, Comment, ProcInst}
WellFormed(d) ==
    /\ Len(d) >= 2
    /\ d[1] = StartA
    /\ d[Len(d)] = EndA
    /\ \A k \in 2..(Len(d) - 1) : d[k] \in BodyPieces
InitWF == InitWith({<<StartA>> \o d \o <<EndA>> : d \in DocsOf(BodyPieces, MaxPieces)}, CoreCfgs)
SpecWF == InitWF /\ [][Next]_vars

(***************************************************************************)
(* Pairs: t and u are given the same document and are called in step.      *)
(***************************************************************************)
InitPair(D, CC) ==
    /\ doc \in D
    /\ \E cc \in CC : cfg = cc[1] /\ ucfg = cc[2]
    /\ t = New(SourceOf(doc, cfg), OptsOf(cfg))
    /\ u = New(SourceOf(doc, ucfg), OptsOf(ucfg))
    /\ out = <<>>
    /\ uout = <<>>
    /\ pass = 1
    /\ first = <<>>
    /\ mem = NoMem
    /\ dec = NoDec

CallTokenBoth ==
    /\ CanCall
    /\ Uses("Token")
    /\ LET r == Token(t)
           q == Token(u)
       IN /\ t' = r.t
          /\ u' = q.t
          /\ out' = Append(out, TokenRes(r))
          /\ uout' = Append(uout, TokenRes(q))
    /\ UNCHANGED <<doc, cfg, pass, first, ucfg, mem, dec>>

CallRawTokenBoth ==
    /\ CanCall
    /\ Uses("RawToken")
    /\ LET r == RawToken(t)
           q == RawToken(u)
       IN /\ t' = r.t
          /\ u' = q.t
          /\ out' = Append(out, RawTokenRes(r))
          /\ uout' = Append(uout, RawTokenRes(q))
    /\ UNCHANGED <<doc, cfg, pass, first, ucfg, mem, dec>>

NextPair == CallTokenBoth \/ CallRawTokenBoth

\* Two tokenizers that differ in the read buffer size or in how the source
\* splits its bytes across reads.
ChunkPairs == {cc \in CoreCfgs \X CoreCfgs : cc[1] # cc[2]}
InitChunk == InitPair(DocsOf(CorePieces, MaxPieces), ChunkPairs)
SpecChunk == InitChunk /\ [][NextPair]_vars

\* t hits a failure of its source or its buffer limit, u does neither.
FaultCfgs ==
    {Cfg(c, 0, c, f) : c \in 1..MaxChunk, f \in 1..MaxFail}
        \cup {Cfg(c, l, c, -1) : c \in 1..MaxChunk, l \in 1..MaxLimit}
InitFault == InitPair(DocsOf(CorePieces, MaxPieces - 1),
                      {<<c, Cfg(c.chunk, 0, c.rmax, -1)>> : c \in FaultCfgs})
SpecFault == InitFault /\ [][NextPair]_vars

(***************************************************************************)
(* What the claims are stated with.                                        *)
(***************************************************************************)
\* A pass that has run to its end: the last call returned an error.
Done(s) == s # <<>> /\ s[Len(s)].err # nil
AllToken(s) == \A i \in 1..Len(s) : s[i].op = "Token"
IsOk(r) == r.err = nil /\ ~r.panic
\* The tokens a pass returned with a nil error, in order.
OkTokens(s) == [i \in 1..Len(SelectSeq(s, IsOk)) |-> SelectSeq(s, IsOk)[i].token]

\* What identifies the lexical unit a token stands for.
Shape(name, end, self, raw) == [name |-> name, end |-> end, self |-> self, raw |-> raw]
ShapeOfToken(tok) ==
    Shape(tok.Name.Full, tok.IsEndElement, tok.SelfClosing,
          IF tok.Name.Full = <<>> THEN tok.Data ELSE <<>>)
IsMarkup(p) == p \in {StartA, EndA, SelfB, Comment, ProcInst}
ShapeOfPiece(p) ==
    IF p = StartA THEN Shape(<<"a">>, FALSE, FALSE, <<>>)
    ELSE IF p = EndA THEN Shape(<<"a">>, TRUE, FALSE, <<>>)
    ELSE IF p = SelfB THEN Shape(<<"b">>, FALSE, TRUE, <<>>)
    ELSE Shape(<<>>, FALSE, TRUE, p)

\* The runs of character data of a document, whitespace-trimmed, without
\* the runs that are whitespace only.
RunOf(acc) == IF trim(acc) = <<>> THEN <<>> ELSE <<trim(acc)>>
RECURSIVE TextRuns(_, _)
TextRuns(d, acc) ==
    IF d = <<>> THEN RunOf(acc)
    ELSE IF IsMarkup(Head(d)) THEN RunOf(acc) \o TextRuns(Tail(d), <<>>)
    ELSE TextRuns(Tail(d), acc \o Head(d))

(***************************************************************************)
(* The claims.                                                             *)
(***************************************************************************)
\* C1: chunking transparency.  Two tokenizers that are given the same
\* document and differ only in the read buffer size, or in how the source
\* splits its bytes across reads, return the same sequence of results.
ChunkingTransparent == \A i \in 1..Len(out) : View(out[i]) = View(uout[i])

\* C2: no content is lost or reordered on well-formed input.  Once Token
\* has been called to the end of a well-formed document, the tokens
\* returned are its tags, processing instructions and comments, one token
\* each, in document order, and every run of character data is the Data of
\* a returned token.
ContentPreserved ==
    (WellFormed(doc) /\ AllToken(out) /\ Done(out)) =>
        /\ Len(OkTokens(out)) = Len(SelectSeq(doc, IsMarkup))
        /\ \A i \in 1..Len(OkTokens(out)) :
               ShapeOfToken(OkTokens(out)[i]) = ShapeOfPiece(SelectSeq(doc, IsMarkup)[i])
        /\ \A k \in 1..Len(TextRuns(doc, <<>>)) :
               \E i \in 1..Len(OkTokens(out)) :
                   OkTokens(out)[i].Data = TextRuns(doc, <<>>)[k]

\* C3: sticky error.  Once a call has returned an error, every later call
\* of Token or RawToken returns an error of the same kind and issues no
\* Read on the source, until Reset.
StickyError ==
    [][(out # <<>> /\ Last(out).err # nil /\ out' # out /\ out' # <<>>) =>
           /\ Len(out') = Len(out) + 1
           /\ Last(out').err.kind = Last(out).err.kind
           /\ Last(out').calls = Last(out).calls]_vars

\* A call of each operation has followed a returned error, after a Reset.
StickyErrorSeen ==
    /\ pass = 2
    /\ Len(out) >= 3
    /\ out[Len(out) - 2].err # nil
    /\ {out[Len(out) - 1].op, out[Len(out)].op} = {"Token", "RawToken"}

\* C4: no partial token on a fatal error.  t's source fails, or t's buffer
\* limit is hit, in the course of the document; u reads the same document
\* with neither.  Every token that Token returns with a nil error on t is
\* the token u returns at the same call: none is extracted from a span that
\* the failure cut short.
NoPartialToken ==
    \A i \in 1..Len(out) :
        (out[i].op = "Token" /\ IsOk(out[i])) =>
            (IsOk(uout[i]) /\ out[i].token = uout[i].token)

\* C5: Reset-idempotence.  After Token has been called to the end of a
\* document, Reset with a source that delivers the same bytes and the same
\* options, and Token called again, returns the results of the first pass.
ResetIdempotent ==
    (pass = 2 /\ Done(first) /\ AllToken(first) /\ AllToken(out)) =>
        \A i \in 1..Min(Len(out), Len(first)) : View(out[i]) = View(first[i])

\* A document that ends inside a tag or inside a CDATA section, after
\* complete tags, comments, processing instructions and text.
Truncated(d) ==
    /\ d # <<>>
    /\ Last(d) \in {OpenTag, OpenCData}
    /\ \A k \in 1..(Len(d) - 1) : IsMarkup(d[k]) \/ d[k] \in {TextX, Blank}
\* Its complete tags, comments and processing instructions.
Complete(d) == SelectSeq(SubSeq(d, 1, Len(d) - 1), IsMarkup)

\* C6: unexpected end of input.  When the source reaches its end while the
\* bracket depth of RawToken is not zero, or inside a CDATA construct that
\* is not closed, every error RawToken and Token return is
\* io.ErrUnexpectedEOF, never io.EOF; on a document that ends inside a tag
\* or a CDATA section, Token first returns one token for each complete
\* tag, comment and processing instruction before it.
UnexpectedEOF ==
    /\ t.eofAt \in {"depth", "cdata"} =>
           \A i \in 1..Len(out) : out[i].err # nil => out[i].err.kind = "ErrUnexpectedEOF"
    /\ (Truncated(doc) /\ Done(out)) =>
           /\ \A i \in 1..Len(out) : out[i].err # nil => out[i].err.kind = "ErrUnexpectedEOF"
           /\ AllToken(out) =>
                  /\ Len(OkTokens(out)) = Len(Complete(doc))
                  /\ \A i \in 1..Len(OkTokens(out)) :
                         ShapeOfToken(OkTokens(out)[i]) = ShapeOfPiece(Complete(doc)[i])

\* Token has returned two tokens and then the error of a source that ended
\* inside an open CDATA section.
UnexpectedEOFSeen ==
    /\ Truncated(doc) /\ Done(out) /\ AllToken(out)
    /\ t.eofAt = "cdata"
    /\ Len(OkTokens(out)) >= 2

\* C7: Token returns a token or an error, never both.  Whenever Token
\* returns a non-nil error, io.EOF included, the token it returns is the
\* zero value.
TokenOrError ==
    \A i \in 1..Len(out) :
        (out[i].op = "Token" /\ out[i].err # nil) => out[i].token = ZeroToken

\* Token has returned a token with a name and then the failure of the source.
TokenOrErrorSeen ==
    /\ Len(out) >= 2
    /\ AllToken(out)
    /\ IsOk(out[Len(out) - 1])
    /\ out[Len(out) - 1].token.Name.Local # <<>>
    /\ Last(out).err.kind = "errRead"

\* The attribute p of the tags AttrGt, AttrSl and AttrLt, and its value.
AttrP == [Prefix |-> <<>>, Local |-> <<"p">>, Full |-> <<"p">>]
ValueOf(p) == Slice(p, 6, 9)
\* The token of such a tag, but for its Data.
TagS(tok, p) ==
    /\ tok.Name = [Prefix |-> <<>>, Local |-> <<"s">>, Full |-> <<"s">>]
    /\ tok.Attrs = <<[Name |-> AttrP, Value |-> ValueOf(p)]>>
    /\ ~tok.SelfClosing
    /\ ~tok.IsEndElement
\* The tokens that Token has returned for the pieces of d: one for each
\* tag and comment, none for text.
TokensFor(d) == Len(SelectSeq(d, LAMBDA p : p # TextX))

\* C8: quote-aware attribute values, '/' and '>'.  For a tag whose quoted
\* attribute value holds a '/' or a '>', after start tags, end tags,
\* comments, text and other such tags and before anything, Token returns
\* one token with the name of the tag, the attribute with the whole value
\* between the quotes, and SelfClosing false.
QuotedSlashGt ==
    \A k \in 1..Len(doc) :
        (/\ doc[k] \in {AttrGt, AttrSl}
         /\ \A j \in 1..(k - 1) : doc[j] \in {StartA, EndA, Comment, TextX, AttrGt, AttrSl}
         /\ AllToken(out)
         /\ Len(out) >= TokensFor(SubSeq(doc, 1, k))) =>
            /\ IsOk(out[TokensFor(SubSeq(doc, 1, k))])
            /\ TagS(out[TokensFor(SubSeq(doc, 1, k))].token, doc[k])

\* Token has returned the token of such a tag that other pieces precede and
\* follow, and the token after it.
QuotedSlashGtSeen ==
    /\ Len(doc) = 3
    /\ doc[1] # doc[2]
    /\ doc[2] \in {AttrGt, AttrSl}
    /\ AllToken(out)
    /\ Len(out) = 3
    /\ IsOk(out[2])
    /\ TagS(out[2].token, doc[2])

\* C9: quote-aware attribute values, '<'.  For a tag whose quoted attribute
\* value holds a '<', Token returns one token with the name of the tag and
\* the attribute with the whole value, and then the tokens of the tags and
\* comments that follow it in the document.
QuotedLt ==
    (/\ doc # <<>>
     /\ Head(doc) = AttrLt
     /\ \A j \in 2..Len(doc) : doc[j] \in {StartA, EndA, Comment}
     /\ AllToken(out)
     /\ Done(out)) =>
        /\ Len(OkTokens(out)) = Len(doc)
        /\ TagS(OkTokens(out)[1], AttrLt)
        /\ \A i \in 2..Len(doc) : ShapeOfToken(OkTokens(out)[i]) = ShapeOfPiece(doc[i])

\* A CDATA section and its payload.
IsCData(p) ==
    /\ Len(p) >= Len(CDATAPrefix) + Len(CDATASuffix)
    /\ Slice(p, 0, Len(CDATAPrefix)) = CDATAPrefix
    /\ Slice(p, Len(p) - Len(CDATASuffix), Len(p)) = CDATASuffix
Payload(p) == Slice(p, Len(CDATAPrefix), Len(p) - Len(CDATASuffix))

\* C10: CDATA folding.  For a start tag followed, after optional blanks, by
\* a CDATA section, the first token Token returns has the name of the tag
\* and the payload of the section as its Data, also when the payload holds
\* a '<' or a '>'; the next call returns what starts right after "]]>": the
\* token of the next tag or comment, or io.EOF at the end of the document.
CDataFolded ==
    \A k \in 2..Len(doc) :
        (/\ doc[1] = StartA
         /\ IsCData(doc[k])
         /\ \A j \in 2..(k - 1) : doc[j] = Blank
         /\ AllToken(out)
         /\ out # <<>>) =>
            /\ IsOk(out[1])
            /\ out[1].token.Name.Local = <<"a">>
            /\ out[1].token.Data = Payload(doc[k])
            /\ (Len(out) >= 2 /\ Len(doc) = k) => out[2].err.kind = "EOF"
            /\ (Len(out) >= 2 /\ Len(doc) > k /\ IsMarkup(doc[k + 1])) =>
                   (IsOk(out[2]) /\ ShapeOfToken(out[2].token) = ShapeOfPiece(doc[k + 1]))

(***************************************************************************)
(* Character data after a start tag.                                       *)
(***************************************************************************)
TextRef == <<"&", "l", "t", ";">>
LoneCR  == <<CR>>
Newline == <<LF>>
TextPieces == {TextX, Blank, LoneCR, Newline, TextRef, EndA, SelfB}

\* A start tag and what follows it: text, references, white space, tags.
InitText == InitWith({<<StartA>> \o d : d \in DocsOf(TextPieces, MaxPieces)}, CoreCfgs)
SpecText == InitText /\ [][Next]_vars

\* The white space of XML, and b without the white space at its ends.
IsSpace(c) == c \in {SP, TAB, CR, LF}
RECURSIVE Strip(_)
Strip(b) ==
    IF b = <<>> THEN b
    ELSE IF IsSpace(Head(b)) THEN Strip(Tail(b))
    ELSE IF IsSpace(b[Len(b)]) THEN Strip(SubSeq(b, 1, Len(b) - 1))
    ELSE b
IsText(p) == p \in {TextX, Blank, LoneCR, Newline, TextRef}
\* The bytes of d from piece k to the next '<', and the piece that starts
\* with that '<' (0: none).
RECURSIVE TextAfter(_, _)
TextAfter(d, k) ==
    IF k > Len(d) \/ ~IsText(d[k]) THEN <<>> ELSE d[k] \o TextAfter(d, k + 1)
RECURSIVE NextMarkup(_, _)
NextMarkup(d, k) ==
    IF k > Len(d) THEN 0 ELSE IF ~IsText(d[k]) THEN k ELSE NextMarkup(d, k + 1)

\* C11: inline character data.  For a start tag followed by character
\* data, the Data of the tag's token is the bytes between the '>' of the
\* tag and the next '<', without the white space at their ends and with
\* character references as they are; the next token is the one that starts
\* at that '<' (io.EOF when there is none).
InlineCharData ==
    (doc # <<>> /\ doc[1] = StartA /\ AllToken(out) /\ out # <<>>) =>
        /\ IsOk(out[1])
        /\ out[1].token.Name.Local = <<"a">>
        /\ out[1].token.Data = Strip(TextAfter(doc, 2))
        /\ (Len(out) >= 2 /\ NextMarkup(doc, 2) # 0) =>
               (IsOk(out[2])
                /\ ShapeOfToken(out[2].token) = ShapeOfPiece(doc[NextMarkup(doc, 2)]))
        /\ (Len(out) >= 2 /\ NextMarkup(doc, 2) = 0) => out[2].err.kind = "EOF"

(***************************************************************************)
(* Comments, processing instructions and directives.                       *)
(***************************************************************************)
CommentHi == <<"<", "!", "-", "-", SP, "h", "i", SP, "-", "-", ">">>
Doctype   == <<"<", "!", "D", SP, "[", "<", "!", "E", ">", "]", ">">>
DeclPieces == {Comment, ProcInst, CommentHi, Doctype, StartA, EndA, SelfB, TextX}

InitDecl == InitWith(DocsOf(DeclPieces, MaxPieces), CoreCfgs)
SpecDecl == InitDecl /\ [][Next]_vars

IsDecl(p) == p \in {Comment, ProcInst, CommentHi, Doctype}
\* The token of a comment, processing instruction or directive p.
DeclToken(p) == [ZeroToken EXCEPT !.Data = p, !.SelfClosing = TRUE]
\* The number of tags, comments, processing instructions and directives
\* among the pieces of d.
Units(d) == Len(SelectSeq(d, LAMBDA p : p # TextX))

CommentDataInner ==
    (doc = <<CommentHi>> /\ AllToken(out) /\ out # <<>>) =>
        /\ IsOk(out[1])
        /\ out[1].token = [ZeroToken EXCEPT !.Data = <<"h", "i">>, !.SelfClosing = TRUE]
        /\ Len(out) >= 2 => out[2].err.kind = "EOF"

\* C13, amended: for the document "<!-- hi -->", Token returns one token
\* with an empty Name, Data "<!-- hi -->" (the whole comment with its
\* delimiters) and SelfClosing true, and then io.EOF.
CommentDataWhole ==
    (doc = <<CommentHi>> /\ AllToken(out) /\ out # <<>>) =>
        /\ IsOk(out[1])
        /\ out[1].token = [ZeroToken EXCEPT !.Data = CommentHi, !.SelfClosing = TRUE]
        /\ Len(out) >= 2 => out[2].err.kind = "EOF"

\* Token has returned the token of "<!-- hi -->" and then io.EOF.
CommentDataWholeSeen ==
    /\ doc = <<CommentHi>>
    /\ AllToken(out)
    /\ Len(out) = 2
    /\ IsOk(out[1])
    /\ out[2].err.kind = "EOF"

\* C14: DOCTYPE with an internal subset.  A directive whose internal subset
\* holds a nested declaration is returned as one token whose Data is the
\* whole directive, from "<!" to the final "]>"; the nested declaration is
\* no token of its own, and the next call returns the token of the tag,
\* comment or processing instruction that follows the directive (io.EOF at
\* the end of the document).
DoctypeOneToken ==
    \A k \in 1..Len(doc) :
        (/\ doc[k] = Doctype
         /\ AllToken(out)
         /\ Len(out) > Units(SubSeq(doc, 1, k))) =>
            LET n == Units(SubSeq(doc, 1, k))
            IN /\ IsOk(out[n])
               /\ out[n].token.Data = Doctype
               /\ out[n].token.Name = ZeroName
               /\ Len(doc) = k => out[n + 1].err.kind = "EOF"
               /\ (Len(doc) > k /\ IsDecl(doc[k + 1])) =>
                      (IsOk(out[n + 1]) /\ out[n + 1].token = DeclToken(doc[k + 1]))
               /\ (Len(doc) > k /\ doc[k + 1] \in {StartA, EndA, SelfB}) =>
                      (IsOk(out[n + 1])
                       /\ ShapeOfToken(out[n + 1].token) = ShapeOfPiece(doc[k + 1]))

\* Token has returned the token of a directive between two tags, and the
\* token of the tag after it.
DoctypeOneTokenSeen ==
    /\ doc = <<StartA, Doctype, EndA>>
    /\ AllToken(out)
    /\ Len(out) = 3
    /\ IsOk(out[3])

(***************************************************************************)
(* Element tags: self-closing tags, attributes, names.                     *)
(***************************************************************************)
SelfA  == <<"<", "a", "/", ">">>
SelfSp == <<"<", "c", SP, "r", "=", "\"", "1", "\"", SP, "/", ">">>
AttrSq == <<"<", "s", SP, "p", "=", "'", "a", "/", "b", "'", ">">>
ElemPieces == {SelfA, SelfB, SelfSp, AttrSl, AttrSq, StartA, EndA, TextX}

InitElem == InitWith(DocsOf(ElemPieces, MaxPieces), CoreCfgs)
SpecElem == InitElem /\ [][Next]_vars

\* The tag p ends with "/>".
EndsSlashGt(p) == Len(p) >= 2 /\ Slice(p, Len(p) - 2, Len(p)) = <<"/", ">">>

\* C15: SelfClosing of element tokens.  The token of a tag has SelfClosing
\* true if and only if the tag ends with "/>"; "<a/><b/>" gives two
\* self-closing tokens, and a tag closed by a plain '>' is never
\* self-closing, whatever its attributes hold.
SelfClosingIffSlashGt ==
    \A k \in 1..Len(doc) :
        (doc[k] # TextX /\ AllToken(out) /\ Len(out) >= Units(SubSeq(doc, 1, k))) =>
            LET r == out[Units(SubSeq(doc, 1, k))]
            IN /\ IsOk(r)
               /\ r.token.Name.Local # <<>>
               /\ r.token.SelfClosing <=> EndsSlashGt(doc[k])

\* C16: a self-closing element consumes no data.  Every token with a name
\* and SelfClosing true that Token returns has empty Data, whatever
\* follows the "/>" of its tag.
SelfClosingNoData ==
    \A i \in 1..Len(out) :
        (/\ out[i].op = "Token" /\ IsOk(out[i])
         /\ out[i].token.Name.Full # <<>>
         /\ out[i].token.SelfClosing) => out[i].token.Data = <<>>

AttrTwo  == <<"<", "s", SP, "p", "=", "\"", "1", "\"", SP, "n", ":", "q", "=", "\"", "2", "\"", ">">>
AttrUrl  == <<"<", "s", SP, "p", "=", "\"", "a", ":", "=", "\"", ">">>
AttrPad  == <<"<", "s", SP, "p", "=", "\"", SP, "a", "\"", ">">>
AttrSqNs == <<"<", "s", SP, "p", "=", "'", "a", ":", "b", "'", SP, "q", "=", "\"", "2", "\"", ">">>
ElemNs   == <<"<", "n", ":", "a", ">">>
NamePieces == {AttrTwo, AttrUrl, AttrPad, AttrSqNs, ElemNs, StartA, EndA, TextX}

InitNames == InitWith(DocsOf(NamePieces, MaxPieces), CoreCfgs)
SpecNames == InitNames /\ [][Next]_vars

\* A name without and with a prefix, and an attribute.
Plain(local) == [Prefix |-> <<>>, Local |-> local, Full |-> local]
Prefixed(prefix, local) ==
    [Prefix |-> prefix, Local |-> local, Full |-> prefix \o <<":">> \o local]
Attr(name, value) == [Name |-> name, Value |-> value]
\* The attributes of the tags with name="value" attributes.
AttrsOf(p) ==
    IF p = AttrTwo
    THEN <<Attr(Plain(<<"p">>), <<"1">>), Attr(Prefixed(<<"n">>, <<"q">>), <<"2">>)>>
    ELSE IF p = AttrUrl THEN <<Attr(Plain(<<"p">>), <<"a", ":", "=">>)>>
    ELSE IF p = AttrPad THEN <<Attr(Plain(<<"p">>), <<SP, "a">>)>>
    ELSE <<>>

\* C17: attribute list.  For a tag with name="value" attributes, the Attrs
\* of its token are one Attr for each attribute, in document order, each
\* with its name split into Prefix, Local and Full and with the bytes
\* between its quotes as Value.
AttrList ==
    \A k \in 1..Len(doc) :
        (/\ doc[k] \in {AttrTwo, AttrUrl, AttrPad, StartA}
         /\ AllToken(out)
         /\ Len(out) >= Units(SubSeq(doc, 1, k))) =>
            /\ IsOk(out[Units(SubSeq(doc, 1, k))])
            /\ out[Units(SubSeq(doc, 1, k))].token.Attrs = AttrsOf(doc[k])

\* A name is Prefix ":" Local, or Local when it has no prefix.
NameOk(nm) ==
    nm.Full = IF nm.Prefix # <<>> THEN nm.Prefix \o <<":">> \o nm.Local ELSE nm.Local

\* C18: name invariant.  For the name of every token Token returns and the
\* name of each of its Attrs, Full is Prefix ":" Local when Prefix is not
\* empty and Local when it is.
NameInvariant ==
    \A i \in 1..Len(out) :
        (out[i].op = "Token" /\ IsOk(out[i])) =>
            /\ NameOk(out[i].token.Name)
            /\ \A j \in 1..Len(out[i].token.Attrs) : NameOk(out[i].token.Attrs[j].Name)

IsEndElement(tok) == Len(tok.Name.Full) > 0 /\ At(tok.Name.Full, 0) = "/"

\* token.go, t.IsEndElementOf(t2).
IsEndElementOf(tok, t2) ==
    IF ~IsEndElement(tok) THEN FALSE
    ELSE Slice(tok.Name.Full, 1, Len(tok.Name.Full)) = t2.Name.Full

\* C20: IsEndElementOf(candidate, start) is true if and only if candidate
\* is an end element and its Name.Full equals the Name.Full of start, for
\* every two tokens that Token has returned: false for a start element of
\* the same name and for an end element of another name.
EndElementOf ==
    \A i, j \in 1..Len(out) :
        (/\ out[i].op = "Token" /\ IsOk(out[i])
         /\ out[j].op = "Token" /\ IsOk(out[j])) =>
            (IsEndElementOf(out[j].token, out[i].token)
                 <=> (/\ out[j].token.IsEndElement
                      /\ out[j].token.Name.Full = out[i].token.Name.Full))

(***************************************************************************)
(* The buffer and its limit.                                               *)
(***************************************************************************)
\* C24: hard buffer ceiling.  In every reachable state the length of the
\* buffer of a tokenizer is at most its buffer limit, the limit given or,
\* when that is smaller than the read buffer size, the read buffer size.
BufferCeiling == t.len <= t.options.autoGrowBufferMaxLimitSize

\* C25: buffer-limit boundary.  For a comment or processing instruction at
\* the start of the document and every read buffer size: when its bytes fit
\* in a buffer of the limit's size, Token returns its token; when they need
\* more, Token fails with errAutoGrowBufferExceedMaxLimit.
BufferLimitBoundary ==
    (/\ cfg.limit > 0 /\ cfg.fail = -1
     /\ doc # <<>> /\ doc[1] \in {Comment, ProcInst}
     /\ AllToken(out) /\ out # <<>>) =>
        IF Len(doc[1]) <= Max(cfg.limit, cfg.chunk)
        THEN IsOk(out[1]) /\ out[1].token = DeclToken(doc[1])
        ELSE out[1].err.kind = "errAutoGrowBufferExceedMaxLimit"

(***************************************************************************)
(* Options: New and Reset with any sizes, Reset on a new source.           *)
(***************************************************************************)
\* The sizes given to WithReadBufferSize, WithAutoGrowBufferMaxLimitSize and
\* WithAttrBufferSize: negative or zero, and positive ones, with limits
\* below and above the read buffer sizes.
GivenSizes  == {-1, 1, MaxChunk}
GivenLimits == {0, 1, MaxLimit - 1}
GivenAttrs  == {0, 1}
OptCfgs ==
    {[chunk |-> c, limit |-> l, attrs |-> a, rmax |-> MaxChunk, fail |-> -1] :
         c \in GivenSizes, l \in GivenLimits, a \in GivenAttrs}
OptDocs == {<<>>, <<StartA, TextX, EndA>>, <<Comment, OpenTag>>}
Given(c) == Options(c.chunk, c.limit, c.attrs)

InitOpts ==
    /\ doc \in OptDocs
    /\ cfg \in OptCfgs
    /\ t = New(SourceOf(doc, cfg), Given(cfg))
    /\ out = <<>>
    /\ pass = 1
    /\ first = <<>>
    /\ mem = NoMem
    /\ dec = NoDec
    /\ ucfg = cfg
    /\ u = ZeroTokenizer
    /\ uout = <<>>

\* Reset on another source, with other options.
CallReset ==
    /\ ~Panicked
    /\ pass < MaxPasses
    /\ \E d \in OptDocs, c \in OptCfgs :
           /\ doc' = d
           /\ cfg' = c
           /\ t' = Reset(t, SourceOf(d, c), Given(c))
    /\ first' = out
    /\ out' = <<>>
    /\ pass' = pass + 1
    /\ UNCHANGED <<ucfg, u, uout, mem, dec>>

NextOpts == CallToken \/ CallRawToken \/ CallReset
SpecOpts == InitOpts /\ [][NextOpts]_vars

\* The options that the sizes of c stand for.
Normalised(c) ==
    LET size == IF c.chunk > 0 THEN c.chunk ELSE defaultReadBufferSize
        limit == IF c.limit > 0 THEN c.limit ELSE autoGrowBufferMaxLimitSize
    IN Options(size, IF limit < size THEN size ELSE limit,
               IF c.attrs > 0 THEN c.attrs ELSE defaultAttrsBufferSize)

\* C26: configuration normalisation.  After New or Reset with any sizes,
\* the read buffer size is the size given if it is positive and the default
\* otherwise, and so is the attribute buffer size; the buffer limit is the
\* size given if positive and the default otherwise, raised to the read
\* buffer size when smaller: the read buffer size is positive and the limit
\* is at least the read buffer size.
OptionsNormalised ==
    /\ t.options = Normalised(cfg)
    /\ t.options.readBufferSize > 0
    /\ t.options.autoGrowBufferMaxLimitSize >= t.options.readBufferSize

\* Reset was given a limit below the read buffer size and a non-positive
\* attribute buffer size, after a pass with other options.
OptionsNormalisedSeen ==
    /\ pass = 2
    /\ cfg.chunk = MaxChunk /\ cfg.limit = 1 /\ cfg.attrs = 0
    /\ t.options = Options(MaxChunk, MaxChunk, defaultAttrsBufferSize)
    /\ out # <<>>

\* C27: Reset rebinds and clears.  After any calls, also ones that left an
\* error behind, Reset with a source and options leaves no error, the
\* cursor and the count of bytes read at zero, the options that the
\* defaults and the sizes given make, whatever the options were before, and
\* the new source as the one the next call reads.
ResetRebinds ==
    [][pass' = pass + 1 =>
           /\ t'.err = nil
           /\ t'.cur = 0
           /\ t'.n = 0
           /\ t'.options = Normalised(cfg')
           /\ t'.r = SourceOf(doc', cfg')]_vars

\* A pass ended in an error other than io.EOF; after Reset with other
\* options, Token has returned a token of the new source.
ResetRebindsSeen ==
    /\ pass = 2
    /\ Done(first)
    /\ Last(first).err.kind \notin {"EOF", "nil"}
    /\ t.options # Normalised(ucfg)
    /\ out # <<>> /\ Last(out).op = "Token" /\ IsOk(Last(out))
    /\ Last(out).token.Name.Local = <<"a">>
    /\ Last(out).calls >= 1

(***************************************************************************)
(* Attributes without a name.  t reads the document, u the same document   *)
(* without the attributes that have no name.                               *)
(***************************************************************************)
StartS      == <<"<", "s", ">">>
AttrQ       == <<"<", "s", SP, "q", "=", "\"", "2", "\"", ">">>
AttrBad     == <<"<", "s", SP, "=", "\"", "x", "\"", ">">>
AttrBadThen == <<"<", "s", SP, "=", "\"", "x", "\"", SP, "q", "=", "\"", "2", "\"", ">">>
AttrThenBad == <<"<", "s", SP, "q", "=", "\"", "2", "\"", SP, "=", "\"", "x", "\"", ">">>
BadPieces == {AttrBad, AttrBadThen, AttrThenBad, StartA, EndA, TextX}

\* The tag p without its attribute that has no name.
WithoutBad(p) ==
    IF p = AttrBad THEN StartS
    ELSE IF p \in {AttrBadThen, AttrThenBad} THEN AttrQ
    ELSE p
Cleaned(d) == [k \in 1..Len(d) |-> WithoutBad(d[k])]

InitBad ==
    /\ doc \in DocsOf(BadPieces, MaxPieces)
    /\ cfg \in CoreCfgs
    /\ ucfg = cfg
    /\ t = New(SourceOf(doc, cfg), OptsOf(cfg))
    /\ u = New(SourceOf(Cleaned(doc), ucfg), OptsOf(ucfg))
    /\ out = <<>>
    /\ uout = <<>>
    /\ pass = 1
    /\ first = <<>>
    /\ mem = NoMem
    /\ dec = NoDec
SpecBad == InitBad /\ [][NextPair]_vars

\* C28: malformed attributes are skipped.  An attribute without a name
\* gives no Attr and no error: Token returns, call by call, what it returns
\* for the same document without that attribute, the name and the other
\* attributes of the tag and the tokens that follow included.
MalformedAttrSkipped ==
    AllToken(out) => \A i \in 1..Len(out) : View(out[i]) = View(uout[i])

(***************************************************************************)
(* The bytes of the spans and tokens returned.                             *)
(***************************************************************************)
\* b is a run of consecutive bytes of d.
IsSliceOf(b, d) ==
    \E lo \in 0..(Len(d) - Len(b)) : Slice(d, lo, lo + Len(b)) = b
\* The byte slices of a token.
SlicesOf(tok) ==
    {tok.Name.Prefix, tok.Name.Local, tok.Name.Full, tok.Data}
        \cup UNION {{tok.Attrs[j].Name.Prefix, tok.Attrs[j].Name.Local,
                     tok.Attrs[j].Name.Full, tok.Attrs[j].Value} :
                        j \in 1..Len(tok.Attrs)}

\* C30: only source bytes are tokenized.  Every span RawToken returns, and
\* the Name, the Attrs and the Data of every token Token returns, are bytes
\* that the source given to the last New or Reset delivers, never a byte of
\* the buffer as New made it or as an earlier source left it; on an empty
\* source the first call of Token returns io.EOF and no token.
OnlySourceBytes ==
    /\ \A i \in 1..Len(out) :
           /\ IsSliceOf(out[i].b, Bytes(doc))
           /\ \A f \in SlicesOf(out[i].token) : IsSliceOf(f, Bytes(doc))
    /\ (doc = <<>> /\ out # <<>> /\ out[1].op = "Token") =>
           (out[1].err.kind = "EOF" /\ out[1].token = ZeroToken)

(***************************************************************************)
(* The caller of Token, Copy and the pool (src/token.go).  The caller      *)
(* holds the token of its last Token call (mem.src) and at most one token  *)
(* of the pool (mem.held); mem.snap is what src read as when it was last   *)
(* copied and mem.copied is src itself at that time.                       *)
(***************************************************************************)
MaxTokens == 1
MaxWrites == 1

\* The tokenizer allocates a new backing array exactly when the capacity of
\* its buffer changes (manageBuffer, lines 266-274).
GenAfter(t2) == IF Len(t2.buf) # Len(t.buf) THEN mem.gen + 1 ELSE mem.gen

TokenCalled(r, raw) ==
    /\ t' = r.t
    /\ out' = Append(out, TokenRes(r))
    /\ mem' = [mem EXCEPT !.gen = GenAfter(r.t),
                          !.hasSrc = r.err = nil /\ ~r.panic,
                          !.src = IF r.err = nil /\ ~r.panic
                                  THEN TokenAt(raw, GenAfter(r.t)) ELSE NewToken]

\* token, err := tok.Token(): the caller holds the token.
HoldToken ==
    /\ CanCall
    /\ TokenCalled(Token(t), RawToken(t))
    /\ UNCHANGED <<doc, cfg, pass, first, ucfg, u, uout, dec>>

RawTokenCalled(r) ==
    /\ t' = r.t
    /\ out' = Append(out, RawTokenRes(r))
    /\ mem' = [mem EXCEPT !.gen = GenAfter(r.t)]

\* A RawToken call while the caller holds a copy.
HoldRawToken ==
    /\ CanCall
    /\ mem.hasSnap
    /\ RawTokenCalled(RawToken(t))
    /\ UNCHANGED <<doc, cfg, pass, first, ucfg, u, uout, dec>>

\* GetToken: sync.Pool's Get returns a token that was put, as it was put,
\* or the token of New.
GetToken ==
    /\ ~mem.hasHeld
    /\ \E p \in mem.pool \cup {NewToken} :
           mem' = [mem EXCEPT !.hasHeld = TRUE, !.held = p, !.fresh = TRUE,
                              !.pool = @ \ {p}]
    /\ UNCHANGED <<doc, cfg, t, out, pass, first, ucfg, u, uout, dec>>

\* PutToken: the token goes to the pool as it is; the pool keeps it or
\* drops it (it keeps MaxTokens tokens at most).
PutToken ==
    /\ mem.hasHeld
    /\ \E kept \in {p \in {{}, {mem.held}} :
                       Cardinality(mem.pool \cup p) <= MaxTokens} :
         mem' = [mem EXCEPT !.hasHeld = FALSE, !.held = NewToken, !.fresh = FALSE,
                          !.pool = @ \cup kept,
                          !.hasSnap = FALSE, !.snap = ZeroToken,
                          !.copied = NewToken, !.wrote = 0]
    /\ UNCHANGED <<doc, cfg, t, out, pass, first, ucfg, u, uout, dec>>

\* held.Copy(src).
CallCopy ==
    /\ mem.hasHeld
    /\ mem.hasSrc
    /\ \A s \in ByteSlices(mem.src) : Readable(s, mem.gen)
    /\ \E slack \in 0..MaxSlack :
           mem' = [mem EXCEPT !.held = Copy(mem.held, mem.src, t.buf, slack),
                              !.fresh = FALSE, !.hasSnap = TRUE,
                              !.snap = Deref(mem.src, t.buf),
                              !.copied = mem.src, !.wrote = 0]
    /\ UNCHANGED <<doc, cfg, t, out, pass, first, ucfg, u, uout, dec>>

\* A write to the first byte of the slice s.
Poke(s) ==
    /\ s.arr = "buf"
    /\ s.gen = mem.gen
    /\ t' = [t EXCEPT !.buf = Write(@, s.off, <<"z">>)]

\* src.Name.Full[0] = 'z' or src.Data[0] = 'z' after the copy.
WriteSrc ==
    /\ mem.hasSnap
    /\ mem.writes < MaxWrites
    /\ \E s \in {mem.copied.Name.Full, mem.copied.Data} : Poke(s)
    /\ mem' = [mem EXCEPT !.writes = @ + 1]
    /\ UNCHANGED <<doc, cfg, out, pass, first, ucfg, u, uout, dec>>

\* held.Attrs[j].Value[0] = 'z' after the copy.
WriteAttr ==
    /\ mem.hasSnap
    /\ mem.writes < MaxWrites
    /\ \E j \in 1..Len(mem.held.Attrs) :
           IF mem.held.Attrs[j].Value.arr = "own"
           THEN /\ mem' = [mem EXCEPT !.writes = @ + 1, !.wrote = j,
                               !.held.Attrs[j].Value.mem = Write(@, 0, <<"z">>)]
                /\ t' = t
           ELSE /\ Poke(mem.held.Attrs[j].Value)
                /\ mem' = [mem EXCEPT !.writes = @ + 1, !.wrote = j]
    /\ UNCHANGED <<doc, cfg, out, pass, first, ucfg, u, uout, dec>>

EndNs == <<"<", "/", "n", ":", "a", ">">>
CopyDocs == {<<AttrQ, TextX, EndNs>>}
InitCopy == InitWith(CopyDocs, CoreCfgs)
NextCopy ==
    \/ HoldToken \/ HoldRawToken \/ GetToken \/ CallCopy \/ PutToken
    \/ WriteSrc \/ WriteAttr
SpecCopy == InitCopy /\ [][NextCopy]_vars

\* C21: Copy takes a stable snapshot.  After held.Copy(src), whatever held
\* was before, held equals src as it was field by field (Name, Attrs, Data,
\* SelfClosing, IsEndElement), and the Name and the Data of held stay equal
\* to that after later Token and RawToken calls and later writes to the
\* bytes of src.
CopySnapshot ==
    mem.hasSnap =>
        /\ Deref(mem.held, t.buf).Name = mem.snap.Name
        /\ Deref(mem.held, t.buf).Data = mem.snap.Data
        /\ mem.held.Attrs = mem.copied.Attrs
        /\ mem.held.SelfClosing = mem.snap.SelfClosing
        /\ mem.held.IsEndElement = mem.snap.IsEndElement

\* What Copy does copy: the same without the IsEndElement flag.
CopySnapshotButEnd ==
    mem.hasSnap =>
        /\ Deref(mem.held, t.buf).Name = mem.snap.Name
        /\ Deref(mem.held, t.buf).Data = mem.snap.Data
        /\ mem.held.Attrs = mem.copied.Attrs
        /\ mem.held.SelfClosing = mem.snap.SelfClosing

\* C22: Copy shares the attribute bytes.  After held.Copy(src) the names and
\* the values of held.Attrs are the slices of src.Attrs, views of the
\* tokenizer's buffer: what is read through held is what is read through
\* src, after a write through held and after later tokenizer calls too.
AttrsShared ==
    mem.hasSnap =>
        /\ Len(mem.held.Attrs) = Len(mem.copied.Attrs)
        /\ \A j \in 1..Len(mem.held.Attrs) :
               /\ mem.held.Attrs[j].Value.arr # "own"
               /\ mem.held.Attrs[j].Name.Full.arr # "own"
               /\ Readable(mem.copied.Attrs[j].Value, mem.gen)
                      => BytesOf(mem.held.Attrs[j].Value, t.buf)
                             = BytesOf(mem.copied.Attrs[j].Value, t.buf)
               /\ Readable(mem.copied.Attrs[j].Name.Full, mem.gen)
                      => NameOf(mem.held.Attrs[j].Name, t.buf)
                             = NameOf(mem.copied.Attrs[j].Name, t.buf)

\* A write through held.Attrs is read through src.Attrs: the value is no
\* longer what it was when it was copied.
AttrsSharedSeen ==
    /\ mem.hasSnap
    /\ mem.wrote > 0
    /\ Readable(mem.copied.Attrs[mem.wrote].Value, mem.gen)
    /\ BytesOf(mem.copied.Attrs[mem.wrote].Value, t.buf) # mem.snap.Attrs[mem.wrote].Value
    /\ At(BytesOf(mem.copied.Attrs[mem.wrote].Value, t.buf), 0) = "z"

\* The token reads as the zero value.
IsZeroToken(tok) ==
    /\ tok.Name.Prefix.len = 0 /\ tok.Name.Local.len = 0 /\ tok.Name.Full.len = 0
    /\ Len(tok.Attrs) = 0
    /\ tok.Data.len = 0
    /\ ~tok.SelfClosing /\ ~tok.IsEndElement

\* C23: after any sequence of GetToken, Copy and PutToken, the token that
\* GetToken returns is zero-valued.
AcquireZero == mem.fresh => IsZeroToken(mem.held)

(***************************************************************************)
(* The spreadsheet decoders (internal/xlsx): UnmarshalWithXMLTokenizer and *)
(* the UnmarshalToken methods of SheetData, Row and Cell.  A decoder is    *)
(* given the tokenizer and a copy of its start token, se.                  *)
(***************************************************************************)
NameSheetData == <<"s", "h", "e", "e", "t", "D", "a", "t", "a">>
NameRow == <<"r", "o", "w">>
NameC == <<"c">>
NameV == <<"v">>
NameT == <<"t">>
NameR == <<"r">>
NameS == <<"s">>

\* strconv.Atoi: a decimal number with an optional sign, or a syntax error.
errAtoi == Err("strconv.ErrSyntax", -1)
Unsigned(v) == IF Len(v) > 0 /\ v[1] \in {"+", "-"} THEN Tail(v) ELSE v
Atoi(v) ==
    IF /\ Len(Unsigned(v)) > 0
       /\ \A i \in 1..Len(Unsigned(v)) :
              Unsigned(v)[i] \in {"0", "1", "2", "3", "4", "5", "6", "7", "8", "9"}
    THEN nil ELSE errAtoi

\* The loop over se.Attrs: the error of the first attribute whose name is
\* in ints and whose value Atoi refuses.
AttrsErr(se, ints) ==
    IF \E i \in 1..Len(se.Attrs) :
           se.Attrs[i].Name.Local \in ints /\ Atoi(se.Attrs[i].Value) # nil
    THEN errAtoi ELSE nil

\* GetToken().Copy(token), as the decoder reads it: Copy copies all but
\* IsEndElement, which no token of the pool has set.
CopyOf(token) == [token EXCEPT !.IsEndElement = FALSE]

\* The bytes of the source that no Token call has consumed yet.
Unread(tok) == Len(tok.r.data) + tok.len - tok.cur

\* One UnmarshalToken call, for the record: the element, the error it
\* returned, whether it saw the end element of se (or se was self-closing),
\* whether it panicked, and the bytes that were unread when it was called
\* (from) and when it returned (rest).
Entry(elem, err, ended, panic, from, rest) ==
    [elem |-> elem, err |-> err, ended |-> ended, panic |-> panic,
     from |-> from, rest |-> rest]

\* What UnmarshalToken returns, with the tokenizer it leaves behind: the
\* error, the value decoded so far, the record of the calls below it.
Decoded(tok, err, panic, ended, val, log) ==
    [t |-> tok, err |-> err, panic |-> panic, ended |-> ended, val |-> val, log |-> log]
Logged(elem, from, d) ==
    [d EXCEPT !.log = Append(@, Entry(elem, d.err, d.ended, d.panic, from, Unread(d.t)))]

RECURSIVE CellLoop(_, _, _)
\* Lines 128-148, given what Token returned.
CellStep(r, se, val) ==
    IF r.panic THEN Decoded(r.t, nil, TRUE, FALSE, val, <<>>)
    ELSE IF r.err = EOF THEN Decoded(r.t, nil, FALSE, FALSE, val, <<>>)
    ELSE IF r.err # nil THEN Decoded(r.t, r.err, FALSE, FALSE, val, <<>>)
    ELSE IF IsEndElementOf(r.token, se) THEN Decoded(r.t, nil, FALSE, TRUE, val, <<>>)
    ELSE IF IsEndElement(r.token) THEN CellLoop(r.t, se, val)
    ELSE IF r.token.Name.Local \in {NameV, NameT} THEN CellLoop(r.t, se, r.token.Data)
    ELSE CellLoop(r.t, se, val)
CellLoop(tok, se, val) == CellStep(Token(tok), se, val)

\* Cell.UnmarshalToken, sheet.go 104-152.
CellUnmarshalToken(tok, se) ==
    Logged(NameC, Unread(tok),
           IF AttrsErr(se, {NameS}) # nil
           THEN Decoded(tok, errAtoi, FALSE, FALSE, <<>>, <<>>)
           ELSE IF se.SelfClosing THEN Decoded(tok, nil, FALSE, TRUE, <<>>, <<>>)
           ELSE CellLoop(tok, se, <<>>))

RECURSIVE RowLoop(_, _, _, _)
\* Lines 84-89, given what the cell's decoder returned.
RowChild(d, se, val, log) ==
    IF d.panic \/ d.err # nil
    THEN Decoded(d.t, d.err, d.panic, FALSE, val, log \o d.log)
    ELSE RowLoop(d.t, se, Append(val, d.val), log \o d.log)
\* Lines 65-90, given what Token returned.
RowStep(r, se, val, log) ==
    IF r.panic THEN Decoded(r.t, nil, TRUE, FALSE, val, log)
    ELSE IF r.err = EOF THEN Decoded(r.t, nil, FALSE, FALSE, val, log)
    ELSE IF r.err # nil THEN Decoded(r.t, r.err, FALSE, FALSE, val, log)
    ELSE IF IsEndElementOf(r.token, se) THEN Decoded(r.t, nil, FALSE, TRUE, val, log)
    ELSE IF IsEndElement(r.token) THEN RowLoop(r.t, se, val, log)
    ELSE IF r.token.Name.Local = NameC
         THEN RowChild(CellUnmarshalToken(r.t, CopyOf(r.token)), se, val, log)
    ELSE RowLoop(r.t, se, val, log)
RowLoop(tok, se, val, log) == RowStep(Token(tok), se, val, log)

\* Row.UnmarshalToken, sheet.go 51-94.
RowUnmarshalToken(tok, se) ==
    Logged(NameRow, Unread(tok),
           IF AttrsErr(se, {NameR}) # nil
           THEN Decoded(tok, errAtoi, FALSE, FALSE, <<>>, <<>>)
           ELSE RowLoop(tok, se, <<>>, <<>>))

RECURSIVE SheetDataLoop(_, _, _, _)
\* Lines 34-40, given what the row's decoder returned.
SheetDataChild(d, se, val, log) ==
    IF d.panic \/ d.err # nil
    THEN Decoded(d.t, d.err, d.panic, FALSE, val, log \o d.log)
    ELSE SheetDataLoop(d.t, se, Append(val, d.val), log \o d.log)
\* Lines 16-41, given what Token returned.
SheetDataStep(r, se, val, log) ==
    IF r.panic THEN Decoded(r.t, nil, TRUE, FALSE, val, log)
    ELSE IF r.err = EOF THEN Decoded(r.t, nil, FALSE, FALSE, val, log)
    ELSE IF r.err # nil THEN Decoded(r.t, r.err, FALSE, FALSE, val, log)
    ELSE IF IsEndElementOf(r.token, se) THEN Decoded(r.t, nil, FALSE, TRUE, val, log)
    ELSE IF IsEndElement(r.token) THEN SheetDataLoop(r.t, se, val, log)
    ELSE IF r.token.Name.Local = NameRow
         THEN SheetDataChild(RowUnmarshalToken(r.t, CopyOf(r.token)), se, val, log)
    ELSE SheetDataLoop(r.t, se, val, log)
SheetDataLoop(tok, se, val, log) == SheetDataStep(Token(tok), se, val, log)

\* SheetData.UnmarshalToken, sheet.go 14-44.
SheetDataUnmarshalToken(tok, se) ==
    Logged(NameSheetData, Unread(tok), SheetDataLoop(tok, se, <<>>, <<>>))

\* What UnmarshalWithXMLTokenizer returns after the decoder returned d.
Unmarshalled(d) ==
    /\ t' = d.t
    /\ dec' = [done |-> TRUE, err |-> d.err, panic |-> d.panic, log |-> d.log]

\* One pass of the loop of UnmarshalWithXMLTokenizer, given what Token
\* returned: it returns at io.EOF and at an error, and after the decoder of
\* the sheetData element.
UnmarshalStep(r) ==
    /\ out' = Append(out, TokenRes(r))
    /\ IF r.panic
       THEN t' = r.t /\ dec' = [dec EXCEPT !.done = TRUE, !.panic = TRUE]
       ELSE IF r.err = EOF
       THEN t' = r.t /\ dec' = [dec EXCEPT !.done = TRUE]
       ELSE IF r.err # nil
       THEN t' = r.t /\ dec' = [dec EXCEPT !.done = TRUE, !.err = r.err]
       ELSE IF r.token.Name.Local = NameSheetData
       THEN Unmarshalled(SheetDataUnmarshalToken(r.t, CopyOf(r.token)))
       ELSE t' = r.t /\ dec' = dec

Unmarshal ==
    /\ ~dec.done
    /\ UnmarshalStep(Token(t))
    /\ UNCHANGED <<doc, cfg, pass, first, ucfg, u, uout, mem>>

StartSheetData == <<"<">> \o NameSheetData \o <<">">>
StartRow == <<"<">> \o NameRow \o <<SP, "r", "=", "\"", "1", "\"", ">">>
StartC == <<"<", "c", ">">>
StartV == <<"<", "v", ">">>
TextOne == <<"1">>
EndV == <<"<", "/", "v", ">">>
EndC == <<"<", "/", "c", ">">>
EndRow == <<"<", "/">> \o NameRow \o <<">">>
EndSheetData == <<"<", "/">> \o NameSheetData \o <<">">>

\* A sheet of one row of one cell, and what a source that ends early
\* delivers of it, piece by piece.
Sheet ==
    <<ProcInst, StartSheetData, StartRow, StartC, StartV, TextOne, EndV, EndC,
      EndRow, EndSheetData>>
\* Sheets with a self-closing cell and with a self-closing row.
SelfC == <<"<", "c", "/", ">">>
SelfRow == <<"<">> \o NameRow \o <<"/", ">">>
SheetSelfC == <<StartSheetData, StartRow, SelfC, EndRow, EndSheetData>>
SheetSelfRow == <<StartSheetData, SelfRow, StartRow, StartC, EndC, EndRow, EndSheetData>>
SheetDocs ==
    {SubSeq(Sheet, 1, k) : k \in 0..Len(Sheet)} \cup {SheetSelfC, SheetSelfRow}
\* The source fails after that many bytes, or never (-1).
SheetFails == {-1, 8, 20, 30, 40}
SheetCfgs == {Cfg(c, 0, c, f) : c \in {1, MaxChunk}, f \in SheetFails}

InitSheet == InitWith(SheetDocs, SheetCfgs)
NextSheet == Unmarshal
SpecSheet == InitSheet /\ [][NextSheet]_vars

\* The end tag of the element.
EndTag(elem) == <<"<", "/">> \o elem \o <<">">>
\* The self-closing tag of the element.
SelfTag(elem) == <<"<">> \o elem \o <<"/", ">">>
\* The document holds no end tag and no self-closing tag of the element.
Unclosed(elem) == \A k \in 1..Len(doc) : doc[k] # EndTag(elem) /\ doc[k] # SelfTag(elem)

\* C29: decoders never truncate silently.  When the token stream ends, with
\* io.EOF or with an error, before an UnmarshalToken has seen the end
\* element of its start token, it returns a non-nil error.  Stated for the
\* documents that do not hold that end element.
NoSilentTruncation ==
    \A i \in 1..Len(dec.log) :
        (Unclosed(dec.log[i].elem) /\ ~dec.log[i].panic) => dec.log[i].err # nil

\* The same for the sources that fail.
NoSilentTruncationOnFailure ==
    \A i \in 1..Len(dec.log) :
        (Unclosed(dec.log[i].elem) /\ ~dec.log[i].panic /\ t.err # nil /\ t.err # EOF)
            => dec.log[i].err # nil

\* C31: no empty tokens.  Every token that Token returns with a nil error
\* has a non-empty Name.Full or a non-empty Data: white space, or nothing,
\* between the last lexical unit and the end of the stream gives no token,
\* only io.EOF.
NoEmptyToken ==
    \A i \in 1..Len(out) :
        (out[i].op = "Token" /\ IsOk(out[i]))
            => (Len(out[i].token.Name.Full) > 0 \/ Len(out[i].token.Data) > 0)

\* C32: extraction never fails.  Whatever the bytes and whatever the source
\* does, Token does not index the span out of range while it extracts the
\* name, the attributes and the data: no Token call panics.
ExtractionNeverPanics ==
    \A i \in 1..Len(out) : out[i].op = "Token" => ~out[i].panic

\* C33: the scratch token carries nothing over.  The token that a Token
\* call returns is the token that the extraction gives for the span of that
\* call on a new scratch token: no name, attribute, data or flag of the
\* token returned before is in it.
ScratchCarriesNothing ==
    [][(/\ Len(out') = Len(out) + 1
        /\ Last(out').op = "Token"
        /\ IsOk(Last(out'))
        /\ t.err = nil)
           => Last(out').token = Extract(RawToken(t).b).token]_vars

\* A token without attributes and flags was returned right after a token
\* with an attribute or a flag.
ScratchCarriesNothingSeen ==
    /\ Len(out) >= 2
    /\ AllToken(out)
    /\ IsOk(out[Len(out) - 1]) /\ IsOk(Last(out))
    /\ \/ Len(out[Len(out) - 1].token.Attrs) > 0
       \/ out[Len(out) - 1].token.SelfClosing
       \/ out[Len(out) - 1].token.IsEndElement
    /\ Len(Last(out).token.Attrs) = 0
    /\ ~Last(out).token.SelfClosing
    /\ ~Last(out).token.IsEndElement
    /\ Len(Last(out).token.Name.Full) > 0

\* C34: the bracket depth stays non-negative.  In no state of the scanner
\* is openclose, the count of RawToken, below 0: a '>' in text outside any
\* tag does not keep the tags that follow from being returned.
DepthNonNegative == t.low >= 0

\* The span of the call: the bytes of RawToken, the Data of a token without
\* a name.
SpanOf(r) == IF r.op = "RawToken" THEN r.b ELSE r.token.Data
\* The span of a processing instruction, a directive or a comment.
IsNonTag(r) ==
    /\ IsOk(r)
    /\ Len(r.token.Name.Full) = 0
    /\ Len(SpanOf(r)) >= 3
    /\ SpanOf(r)[1] = "<"
    /\ SpanOf(r)[2] \in {"?", "!"}
    /\ Last(SpanOf(r)) = ">"
\* The Read calls issued before the last call.
CallsBefore == IF Len(out) = 1 THEN 0 ELSE out[Len(out) - 1].calls

\* C35: no lookahead after a processing instruction, a directive or a
\* comment.  The call that returns such a span leaves the cursor on the byte
\* right after its '>', and it issued no Read after the Read that delivered
\* that '>': it issued none, or the '>' is among the bytes of its last Read.
NoLookahead ==
    (out # <<>> /\ IsNonTag(Last(out))) =>
        /\ t.cur >= Len(SpanOf(Last(out)))
        /\ Slice(t.buf, t.cur - Len(SpanOf(Last(out))), t.cur) = SpanOf(Last(out))
        /\ \/ Last(out).calls = CallsBefore
           \/ t.len - t.cur < t.got

\* A comment was returned while the bytes that follow it were in the buffer
\* already, and one that took several reads.
NoLookaheadSeen ==
    /\ out # <<>>
    /\ IsNonTag(Last(out))
    /\ Last(out).calls > CallsBefore + 1
    /\ t.cur < t.len

\* C36: Reset keeps adequate capacity.  Reset leaves the backing array of
\* the buffer as it is when its capacity is at least the read buffer size
\* plus defaultReadBufferSize, and makes one of that capacity otherwise; the
\* length of the buffer after Reset is the read buffer size.
ResetKeepsCapacity ==
    [][pass' = pass + 1 =>
          /\ t'.len = t'.options.readBufferSize
          /\ IF Len(t.buf) >= t'.options.readBufferSize + defaultReadBufferSize
             THEN t'.buf = t.buf
             ELSE Len(t'.buf) = t'.options.readBufferSize + defaultReadBufferSize]_vars

\* After a Reset the buffer has more capacity than Reset gives a new one
\* and holds bytes of the pass before: it was kept.
ResetKeepsCapacitySeen ==
    /\ pass = 2
    /\ out = <<>>
    /\ Len(t.buf) > t.options.readBufferSize + defaultReadBufferSize
    /\ \E i \in 1..Len(t.buf) : t.buf[i] # NUL

\* The bytes of the document after its piece k.
BytesAfter(k) == Len(Bytes(SubSeq(doc, k + 1, Len(doc))))
\* The pieces that may be the start tag of the call e: the bytes after
\* them were unread when the decoder was called.
StartOf(e) == {k \in 1..Len(doc) : BytesAfter(k) = e.from}
\* The piece at which the element that starts with the piece k ends: k
\* when the tag is self-closing, else the first end tag of the element
\* after k (0: there is none).
IsSelfClosingTag(p) == Len(p) >= 2 /\ SubSeq(p, Len(p) - 1, Len(p)) = <<"/", ">">>
EndOf(e, k) ==
    IF IsSelfClosingTag(doc[k]) THEN k
    ELSE IF \E j \in (k + 1)..Len(doc) : doc[j] = EndTag(e.elem)
    THEN CHOOSE j \in (k + 1)..Len(doc) :
             /\ doc[j] = EndTag(e.elem)
             /\ \A i \in (k + 1)..(j - 1) : doc[i] # EndTag(e.elem)
    ELSE 0

\* C37: a decoder stops at its own element.  An UnmarshalToken that returns
\* nil on a document that holds the end of its element has consumed the
\* tokens up to the end element of its start token and no token after it,
\* and none at all when its start token is self-closing.
StopsAtOwnElement ==
    \A i \in 1..Len(dec.log) :
        \A k \in StartOf(dec.log[i]) :
            (/\ ~dec.log[i].panic
             /\ dec.log[i].err = nil
             /\ t.err \in {nil, EOF}
             /\ EndOf(dec.log[i], k) # 0)
                => dec.log[i].rest = BytesAfter(EndOf(dec.log[i], k))

\* The same for the cells alone.
CellStopsAtOwnElement ==
    \A i \in 1..Len(dec.log) :
        \A k \in StartOf(dec.log[i]) :
            (/\ dec.log[i].elem = NameC
             /\ IsSelfClosingTag(doc[k])
             /\ ~dec.log[i].panic
             /\ dec.log[i].err = nil)
                => dec.log[i].rest = BytesAfter(EndOf(dec.log[i], k))

\* The calls on sources that deliver the document to its end, or fail
\* after two bytes.
CallsPieces == {StartA, TextX, Comment, StrayGt, OpenTag}
CallsCfgs == {Cfg(1, 0, 1, -1), Cfg(MaxChunk, 0, MaxChunk, -1), Cfg(1, 0, 1, 2)}
InitCalls == InitWith(DocsOf(CallsPieces, MaxPieces), CallsCfgs)
SpecCalls == InitCalls /\ [][Next]_vars

\* The calls that returned with a nil error.
OkCount(s) == Len(SelectSeq(s, IsOk))

\* C38: termination.  On a source that delivers a finite document and whose
\* every Read returns at least one byte or an error, the calls of Token or
\* RawToken that return a nil error are no more than the bytes that pass
\* through the buffer, and the sequence of calls stops only when a call has
\* returned io.EOF or a terminal error.
StopsAtEndOfStream ==
    /\ OkCount(out) <= t.options.readBufferSize + Len(Bytes(doc))
    /\ ~CanCall => ErrCount(out) > 0

\* The same, but for the calls that panic.
StopsAtEndOfStreamOrPanics ==
    /\ OkCount(out) <= t.options.readBufferSize + Len(Bytes(doc))
    /\ ~CanCall => (Panicked \/ ErrCount(out) > 0)

\* The bytes that pass through the buffer of t: the readBufferSize bytes that
\* Reset leaves in it, then the document.
Stream == Zeros(t.options.readBufferSize) \o Bytes(doc)
\* The offset in Stream of the byte at t.buf[i].
Offset(i) == t.base + i

\* C39: cursor and compaction invariant.  Between calls
\* 0 <= cur <= len(buf) <= cap(buf); the buffer holds the bytes of the
\* stream from the offset the compactions have dropped up to what has been
\* read, in order: a compaction moved exactly the bytes at [pivot, len(buf))
\* to offset 0 and set cur to 0; and the span that RawToken returned is,
\* trimmed, a window of the stream that ends at the cursor: pivot and pos
\* designate the same bytes after the moves as before.
CursorAndCompaction ==
    /\ 0 <= t.cur /\ t.cur <= t.len /\ t.len <= Len(t.buf)
    /\ Slice(t.buf, 0, t.len) = Slice(Stream, Offset(0), Offset(t.len))
    /\ (out # <<>> /\ Last(out).op = "RawToken" /\ IsOk(Last(out)))
           => \E k \in Offset(0)..Offset(t.cur) :
                  trim(Slice(Stream, k, Offset(t.cur))) = Last(out).b

\* RawToken has returned a span after a compaction with pivot > 0 and after
\* the buffer has grown.
CursorAndCompactionSeen ==
    /\ t.base > 0
    /\ Len(t.buf) > t.options.readBufferSize + defaultReadBufferSize
    /\ t.cur > 0
    /\ out # <<>> /\ Last(out).op = "RawToken" /\ IsOk(Last(out))
    /\ Len(Last(out).b) > 1

====
